---- MODULE Spec2Model ----
(***************************************************************************)
(* Round state machine of the blackjack engine (blackjack/game_logic.py,   *)
(* player.py, dealer.py, deck.py).                                         *)
(*                                                                         *)
(* Cards are modelled by their rank: no rule of the engine reads a suit.   *)
(* The shoe is shuffled with random.shuffle, so its order is an arbitrary  *)
(* permutation; the model keeps the shoe as the multiset of the remaining  *)
(* ranks and lets every draw pick any remaining card.                      *)
(* Indices are 0-based as in the code; TLA+ sequences are 1-based, so the  *)
(* hand at index i is hands[i + 1].                                        *)
(***************************************************************************)
EXTENDS Integers, Sequences, FiniteSets, TLC

\* ------------------------------------------------------------------------
\* Bounds of the model
\* ------------------------------------------------------------------------
\* Cards of each rank in a freshly built shoe (4 * num_decks in the code).
CardsPerRank == 3
\* Cards dealt from the shoe, over all rounds, before the model stops
\* dealing.
MaxCardsDealt == 9
\* starting_chips passed to the constructor.
StartingChips == 10
\* Cards of the hands on which the valuation functions are checked.
MaxHandLen == 4
\* Rounds audited one after the other, more than round_history keeps.
MaxRounds == 52
\* Cards each side holds after the deal: deal_cards(2).
InitialCards == 2
\* starting_chips of a game that can pay for a split and a double.
SplitTableChips == 15
\* Rounds asked of an auto-play run that bets progressively.
ProgressiveHands == 3

\* Ranks present in the scaled-down shoe, a subset of Card.RANKS.
ShoeRanks == {"A", "7", "K"}
\* Amounts offered to place_bet: rejected ones (0, below min_bet, above
\* max_bet) and an accepted, odd one (so that the halves are rounded).
BetAmounts == {0, 3, 5, 501}

\* ------------------------------------------------------------------------
\* Program constants
\* ------------------------------------------------------------------------
RANKS == {"A", "2", "3", "4", "5", "6", "7", "8", "9", "10", "J", "Q", "K"}
min_bet == 5
max_bet == 500
HistoryCap == 50

BETTING == "betting"
DEALING == "dealing"
PLAYER_TURN == "player_turn"
DEALER_TURN == "dealer_turn"
GAME_OVER == "game_over"

\* Python's None for the result label.
None == "none"
\* Python's None for an optional record or tuple: the optional value v is
\* kept as the empty sequence (None) or as the value itself for a tuple and
\* <<v>> for a record.
Nothing == <<>>

\* ------------------------------------------------------------------------
\* Card and hand valuation (deck.py)
\* ------------------------------------------------------------------------
CardValue(rank) ==
    IF rank \in {"J", "Q", "K"} THEN 10
    ELSE IF rank = "A" THEN 11
    ELSE CASE rank = "2" -> 2 [] rank = "3" -> 3 [] rank = "4" -> 4
           [] rank = "5" -> 5 [] rank = "6" -> 6 [] rank = "7" -> 7
           [] rank = "8" -> 8 [] rank = "9" -> 9 [] rank = "10" -> 10

is_ace(rank) == rank = "A"

is_ten_value(rank) == CardValue(rank) = 10

\* First pass of calculate_hand_value: every Ace counted as 11.
RECURSIVE SumAceAs11(_)
SumAceAs11(cards) ==
    IF cards = <<>> THEN 0
    ELSE CardValue(Head(cards)) + SumAceAs11(Tail(cards))

RECURSIVE CountAces(_)
CountAces(cards) ==
    IF cards = <<>> THEN 0
    ELSE (IF is_ace(Head(cards)) THEN 1 ELSE 0) + CountAces(Tail(cards))

\* The loop run at most once: only one Ace is taken down to 1.
adjust_one_ace(total, aces) ==
    IF total > 21 /\ aces > 0 THEN total - 10 ELSE total

\* The while loop of calculate_hand_value.
RECURSIVE AdjustAces(_, _)
AdjustAces(total, aces) ==
    IF total > 21 /\ aces > 0 THEN AdjustAces(total - 10, aces - 1)
    ELSE total

calculate_hand_value(cards) == AdjustAces(SumAceAs11(cards), CountAces(cards))

is_blackjack(cards) == Len(cards) = 2 /\ calculate_hand_value(cards) = 21

is_soft_17(cards) ==
    IF calculate_hand_value(cards) # 17 THEN FALSE
    ELSE CountAces(cards) > 0 /\ SumAceAs11(cards) = 17

is_bust(cards) == calculate_hand_value(cards) > 21

can_split(cards) == Len(cards) = 2 /\ cards[1] = cards[2]

\* ------------------------------------------------------------------------
\* Shoe (deck.py, class Deck)
\* ------------------------------------------------------------------------
\* Deck(num_decks) followed by shuffle().
FullDeck == [r \in ShoeRanks |-> CardsPerRank]

RECURSIVE BagSize(_, _)
BagSize(d, rs) ==
    IF rs = {} THEN 0
    ELSE LET r == CHOOSE x \in rs : TRUE IN d[r] + BagSize(d, rs \ {r})

\* len(deck)
DeckLen(d) == BagSize(d, ShoeRanks)

\* num_decks * 52
TotalCards == Cardinality(ShoeRanks) * CardsPerRank

Available(d) == {r \in ShoeRanks : d[r] > 0}

Remove(d, r) == [d EXCEPT ![r] = @ - 1]

\* deal_cards(n): the possible outcomes [cards, deck] of n successive
\* deal_card calls; fewer than n cards when the shoe runs out.
RECURSIVE deal_cards(_, _)
deal_cards(d, n) ==
    IF n = 0 \/ Available(d) = {} THEN {[cards |-> <<>>, deck |-> d]}
    ELSE UNION {{[cards |-> <<r>> \o o.cards, deck |-> o.deck] :
                    o \in deal_cards(Remove(d, r), n - 1)} : r \in Available(d)}

\* ------------------------------------------------------------------------
\* Hand (player.py, class Hand)
\* ------------------------------------------------------------------------
Hand(cs) == [cards |-> cs, bet |-> 0, is_doubled_down |-> FALSE,
             is_split |-> FALSE, is_surrendered |-> FALSE,
             is_from_split_aces |-> FALSE]

can_double_down(h) ==
    Len(h.cards) = 2 /\ ~h.is_doubled_down /\ ~h.is_from_split_aces

hand_can_split(h) == can_split(h.cards) /\ ~h.is_split

\* ------------------------------------------------------------------------
\* Dealer (dealer.py)
\* ------------------------------------------------------------------------
\* should_hit with the dealer drawing on every 17.
should_hit_on_17(hand, hits_soft_17) == calculate_hand_value(hand) <= 17

should_hit(hand, hits_soft_17) ==
    LET value == calculate_hand_value(hand) IN
    IF value < 17 THEN TRUE
    ELSE IF value = 17 /\ hits_soft_17 /\ is_soft_17(hand) THEN TRUE
    ELSE FALSE

\* Main loop of play_hand: draw while should_hit holds, stop when the
\* shoe is empty.  The result is the set of possible [hand, deck] outcomes.
RECURSIVE play_loop(_, _, _)
play_loop(hand, d, hits_soft_17) ==
    IF ~should_hit(hand, hits_soft_17) THEN {[hand |-> hand, deck |-> d]}
    ELSE IF Available(d) = {} THEN {[hand |-> hand, deck |-> d]}
    ELSE UNION {play_loop(Append(hand, r), Remove(d, r), hits_soft_17) :
                    r \in Available(d)}

\* The "safety check" loop after the main loop of play_hand.
RECURSIVE safety_loop(_, _, _)
safety_loop(hand, d, hits_soft_17) ==
    IF should_hit(hand, hits_soft_17) /\ DeckLen(d) > 0
    THEN UNION {safety_loop(Append(hand, r), Remove(d, r), hits_soft_17) :
                    r \in Available(d)}
    ELSE {[hand |-> hand, deck |-> d]}

play_hand(hand, d, hits_soft_17) ==
    UNION {IF calculate_hand_value(o.hand) < 17 /\ DeckLen(o.deck) > 0
           THEN safety_loop(o.hand, o.deck, hits_soft_17)
           ELSE {o} : o \in play_loop(hand, d, hits_soft_17)}

\* ------------------------------------------------------------------------
\* State of one BlackjackGame
\* ------------------------------------------------------------------------
VARIABLES
    state,                        \* BlackjackGame.state
    result,                       \* BlackjackGame.result
    chips,                        \* Player.chips
    hands,                        \* Player.hands
    current_hand_index,           \* Player.current_hand_index
    total_wins,                   \* Player.total_wins
    total_losses,                 \* Player.total_losses
    total_blackjacks,             \* Player.total_blackjacks
    dealer_hand,                  \* Dealer.hand, first card is the hole card
    hole_card_hidden,             \* Dealer.hole_card_hidden
    deck,                         \* BlackjackGame.deck
    dealer_hits_soft_17,          \* BlackjackGame.dealer_hits_soft_17
    insurance_offer_active,
    insurance_amount,
    insurance_taken,
    even_money_offer_active,
    insurance_outcome,
    dealer_peeked,
    force_dealer_hand,            \* Nothing or <<hole rank, upcard rank>>
    pending_forced_dealer_cards,  \* _pending_forced_dealer_cards
    round_counter,
    current_round_audit,          \* Nothing or <<the open audit record>>
    round_history,
    auto_mode_active,
    auto_hands_remaining,
    auto_default_bet,
    auto_insurance_mode,
    auto_strategy,
    auto_betting_strategy,
    auto_bet_percentage,
    auto_double_down_pref,
    auto_split_pref,
    auto_surrender_pref,
    auto_progressive_bet,
    auto_last_result,
    auto_status,
    cards_dealt,                  \* cards dealt so far (bounds the model)
    auto_pc,                      \* position of the run_auto_cycle call
    auto_hands,                   \* hands given to the last start_auto_mode
    auto_rounds                   \* rounds completed by run_auto_cycle

playerVars == <<chips, hands, current_hand_index,
                total_wins, total_losses, total_blackjacks>>
dealerVars == <<dealer_hand, hole_card_hidden>>
offerVars == <<insurance_offer_active, insurance_amount, insurance_taken,
               even_money_offer_active, insurance_outcome, dealer_peeked>>
forceVars == <<force_dealer_hand, pending_forced_dealer_cards>>
auditVars == <<round_counter, current_round_audit, round_history>>
autoVars == <<auto_mode_active, auto_hands_remaining, auto_default_bet,
              auto_insurance_mode, auto_strategy, auto_betting_strategy,
              auto_bet_percentage, auto_double_down_pref, auto_split_pref,
              auto_surrender_pref, auto_progressive_bet, auto_last_result,
              auto_status>>
\* The fields of the game object, with the count of the cards dealt.
gameVars == <<state, result, playerVars, dealerVars, deck,
              dealer_hits_soft_17, offerVars, forceVars, auditVars, autoVars,
              cards_dealt>>
\* The run_auto_cycle call in progress.
driverVars == <<auto_pc, auto_hands, auto_rounds>>
vars == <<gameVars, driverVars>>

\* The game object ("self") as a record, so that the methods that mutate
\* it can be written as functions from the object to the object.
Self ==
    [state |-> state, result |-> result, chips |-> chips, hands |-> hands,
     current_hand_index |-> current_hand_index,
     total_wins |-> total_wins, total_losses |-> total_losses,
     total_blackjacks |-> total_blackjacks,
     dealer_hand |-> dealer_hand, hole_card_hidden |-> hole_card_hidden,
     deck |-> deck, dealer_hits_soft_17 |-> dealer_hits_soft_17,
     insurance_offer_active |-> insurance_offer_active,
     insurance_amount |-> insurance_amount,
     insurance_taken |-> insurance_taken,
     even_money_offer_active |-> even_money_offer_active,
     insurance_outcome |-> insurance_outcome,
     dealer_peeked |-> dealer_peeked,
     force_dealer_hand |-> force_dealer_hand,
     pending_forced_dealer_cards |-> pending_forced_dealer_cards,
     round_counter |-> round_counter,
     current_round_audit |-> current_round_audit,
     round_history |-> round_history,
     auto_mode_active |-> auto_mode_active,
     auto_hands_remaining |-> auto_hands_remaining,
     auto_default_bet |-> auto_default_bet,
     auto_insurance_mode |-> auto_insurance_mode,
     auto_strategy |-> auto_strategy,
     auto_betting_strategy |-> auto_betting_strategy,
     auto_bet_percentage |-> auto_bet_percentage,
     auto_double_down_pref |-> auto_double_down_pref,
     auto_split_pref |-> auto_split_pref,
     auto_surrender_pref |-> auto_surrender_pref,
     auto_progressive_bet |-> auto_progressive_bet,
     auto_last_result |-> auto_last_result,
     auto_status |-> auto_status]

\* The call leaves the object in state g.
Becomes(g) ==
    /\ state' = g.state
    /\ result' = g.result
    /\ chips' = g.chips
    /\ hands' = g.hands
    /\ current_hand_index' = g.current_hand_index
    /\ total_wins' = g.total_wins
    /\ total_losses' = g.total_losses
    /\ total_blackjacks' = g.total_blackjacks
    /\ dealer_hand' = g.dealer_hand
    /\ hole_card_hidden' = g.hole_card_hidden
    /\ deck' = g.deck
    /\ dealer_hits_soft_17' = g.dealer_hits_soft_17
    /\ insurance_offer_active' = g.insurance_offer_active
    /\ insurance_amount' = g.insurance_amount
    /\ insurance_taken' = g.insurance_taken
    /\ even_money_offer_active' = g.even_money_offer_active
    /\ insurance_outcome' = g.insurance_outcome
    /\ dealer_peeked' = g.dealer_peeked
    /\ force_dealer_hand' = g.force_dealer_hand
    /\ pending_forced_dealer_cards' = g.pending_forced_dealer_cards
    /\ round_counter' = g.round_counter
    /\ current_round_audit' = g.current_round_audit
    /\ round_history' = g.round_history
    /\ auto_mode_active' = g.auto_mode_active
    /\ auto_hands_remaining' = g.auto_hands_remaining
    /\ auto_default_bet' = g.auto_default_bet
    /\ auto_insurance_mode' = g.auto_insurance_mode
    /\ auto_strategy' = g.auto_strategy
    /\ auto_betting_strategy' = g.auto_betting_strategy
    /\ auto_bet_percentage' = g.auto_bet_percentage
    /\ auto_double_down_pref' = g.auto_double_down_pref
    /\ auto_split_pref' = g.auto_split_pref
    /\ auto_surrender_pref' = g.auto_surrender_pref
    /\ auto_progressive_bet' = g.auto_progressive_bet
    /\ auto_last_result' = g.auto_last_result
    /\ auto_status' = g.auto_status

\* The value a call returns is not part of the state: every operation is an
\* action with a parameter success, and the step of a call is a step of the
\* action for the value of result['success'] the call returns.
\* Return(g, ok, success): the call leaves the object in state g and
\* returns success=ok.
Return(g, ok, success) ==
    LET dealt == DeckLen(deck) - DeckLen(g.deck)
    IN /\ success = ok
       /\ cards_dealt + dealt <= MaxCardsDealt
       /\ cards_dealt' = cards_dealt + dealt
       /\ Becomes(g)

\* Player.get_current_hand: a valid index, else None.
has_current_hand(g) ==
    g.hands # <<>> /\ 0 <= g.current_hand_index
                   /\ g.current_hand_index < Len(g.hands)

get_current_hand(g) == g.hands[g.current_hand_index + 1]

\* ------------------------------------------------------------------------
\* Player.win / lose / push
\* ------------------------------------------------------------------------
\* A blackjack paid like any other win.
blackjack_pays_even(bet) == 2 * bet

\* int(bet * 2.5)
BlackjackPayout(bet) == (5 * bet) \div 2

win(g, hand_index, blackjack) ==
    IF hand_index >= Len(g.hands) THEN g
    ELSE LET hand == g.hands[hand_index + 1] IN
         IF blackjack /\ is_blackjack(hand.cards)
         THEN [g EXCEPT !.chips = @ + BlackjackPayout(hand.bet),
                        !.total_blackjacks = @ + 1,
                        !.total_wins = @ + 1]
         ELSE [g EXCEPT !.chips = @ + hand.bet * 2,
                        !.total_wins = @ + 1]

lose(g, hand_index) == [g EXCEPT !.total_losses = @ + 1]

\* push with the bet kept by the house.
push_keeps_bet(g, hand_index) == g

push(g, hand_index) ==
    IF hand_index < Len(g.hands)
    THEN [g EXCEPT !.chips = @ + g.hands[hand_index + 1].bet]
    ELSE g

\* ------------------------------------------------------------------------
\* Round audit (game_logic.py, "Round auditing helpers")
\* ------------------------------------------------------------------------
\* _start_round_audit
start_round_audit(g, starting_balance, bet_amount) ==
    [g EXCEPT !.round_counter = @ + 1,
              !.current_round_audit =
                  <<[round_id |-> g.round_counter + 1,
                     starting_balance |-> starting_balance,
                     bet_amount |-> bet_amount]>>]

\* _finalize_round_audit without the cut to the most recent records.
finalize_round_audit_uncut(g) ==
    IF g.current_round_audit = Nothing THEN g
    ELSE LET audit == g.current_round_audit[1]
             rec == [round_id |-> audit.round_id,
                     starting_balance |-> audit.starting_balance,
                     bet_amount |-> audit.bet_amount,
                     result |-> g.result,
                     final_balance |-> g.chips]
         IN [g EXCEPT !.current_round_audit = Nothing,
                      !.round_history = Append(g.round_history, rec)]

\* _finalize_round_audit: appends the record of the round to round_history,
\* keeps the most recent HistoryCap records and closes the audit.
finalize_round_audit(g) ==
    IF g.current_round_audit = Nothing THEN g
    ELSE LET audit == g.current_round_audit[1]
             rec == [round_id |-> audit.round_id,
                     starting_balance |-> audit.starting_balance,
                     bet_amount |-> audit.bet_amount,
                     result |-> g.result,
                     final_balance |-> g.chips]
             h == Append(g.round_history, rec)
         IN [g EXCEPT !.current_round_audit = Nothing,
                      !.round_history =
                          IF Len(h) > HistoryCap
                          THEN SubSeq(h, Len(h) - HistoryCap + 1, Len(h))
                          ELSE h]

\* ------------------------------------------------------------------------
\* Settlement (_determine_results)
\* ------------------------------------------------------------------------
SetResult(g, label) == [g EXCEPT !.result = label]

\* The loop over the hands paying a split hand's two-card 21 as a
\* blackjack.
RECURSIVE settle_hands_split_natural(_, _)
settle_hands_split_natural(i, acc) ==
    IF i >= Len(acc.g.hands) THEN acc
    ELSE
    LET g == acc.g
        hand == g.hands[i + 1]
        dealer_value == calculate_hand_value(g.dealer_hand)
        dealer_bust == is_bust(g.dealer_hand)
        player_value == calculate_hand_value(hand.cards)
        next ==
          IF hand.is_surrendered THEN
              IF ~acc.result_set
              THEN [g |-> SetResult(g, "loss"), result_set |-> TRUE]
              ELSE acc
          ELSE IF is_bust(hand.cards) THEN
              IF ~acc.result_set
              THEN [g |-> SetResult(lose(g, i), "loss"), result_set |-> TRUE]
              ELSE [acc EXCEPT !.g = lose(g, i)]
          ELSE IF dealer_bust THEN
              IF ~acc.result_set
              THEN [g |-> SetResult(win(g, i, FALSE), "win"),
                    result_set |-> TRUE]
              ELSE [acc EXCEPT !.g = win(g, i, FALSE)]
          ELSE IF player_value > dealer_value THEN
              IF is_blackjack(hand.cards)
              THEN [g |-> SetResult(win(g, i, TRUE), "blackjack"),
                    result_set |-> TRUE]
              ELSE IF g.result # "blackjack"
                   THEN [g |-> SetResult(win(g, i, FALSE), "win"),
                         result_set |-> TRUE]
                   ELSE [acc EXCEPT !.g = win(g, i, FALSE)]
          ELSE IF player_value < dealer_value THEN
              IF g.result # "blackjack"
              THEN [g |-> SetResult(lose(g, i), "loss"), result_set |-> TRUE]
              ELSE [acc EXCEPT !.g = lose(g, i)]
          ELSE
              IF g.result \notin {"blackjack", "win", "loss"}
              THEN [g |-> SetResult(push(g, i), "push"), result_set |-> TRUE]
              ELSE [acc EXCEPT !.g = push(g, i)]
    IN settle_hands_split_natural(i + 1, next)

\* The loop over the hands; acc = [g, result_set].
RECURSIVE settle_hands(_, _)
settle_hands(i, acc) ==
    IF i >= Len(acc.g.hands) THEN acc
    ELSE
    LET g == acc.g
        hand == g.hands[i + 1]
        dealer_value == calculate_hand_value(g.dealer_hand)
        dealer_bust == is_bust(g.dealer_hand)
        player_value == calculate_hand_value(hand.cards)
        next ==
          IF hand.is_surrendered THEN
              IF ~acc.result_set
              THEN [g |-> SetResult(g, "loss"), result_set |-> TRUE]
              ELSE acc
          ELSE IF is_bust(hand.cards) THEN
              IF ~acc.result_set
              THEN [g |-> SetResult(lose(g, i), "loss"), result_set |-> TRUE]
              ELSE [acc EXCEPT !.g = lose(g, i)]
          ELSE IF dealer_bust THEN
              IF ~acc.result_set
              THEN [g |-> SetResult(win(g, i, FALSE), "win"),
                    result_set |-> TRUE]
              ELSE [acc EXCEPT !.g = win(g, i, FALSE)]
          ELSE IF player_value > dealer_value THEN
              IF is_blackjack(hand.cards) /\ ~hand.is_split
              THEN [g |-> SetResult(win(g, i, TRUE), "blackjack"),
                    result_set |-> TRUE]
              ELSE IF g.result # "blackjack"
                   THEN [g |-> SetResult(win(g, i, FALSE), "win"),
                         result_set |-> TRUE]
                   ELSE [acc EXCEPT !.g = win(g, i, FALSE)]
          ELSE IF player_value < dealer_value THEN
              IF g.result # "blackjack"
              THEN [g |-> SetResult(lose(g, i), "loss"), result_set |-> TRUE]
              ELSE [acc EXCEPT !.g = lose(g, i)]
          ELSE
              IF g.result \notin {"blackjack", "win", "loss"}
              THEN [g |-> SetResult(push(g, i), "push"), result_set |-> TRUE]
              ELSE [acc EXCEPT !.g = push(g, i)]
    IN settle_hands(i + 1, next)

\* The "Resolve insurance if any" block of _determine_results.
resolve_insurance(g) ==
    IF g.insurance_taken
    THEN IF is_blackjack(g.dealer_hand)
         THEN [g EXCEPT !.chips = @ + g.insurance_amount * 3,
                        !.insurance_outcome =
                            <<[paid |-> TRUE,
                               amount |-> g.insurance_amount * 2]>>,
                        !.insurance_taken = FALSE,
                        !.insurance_amount = 0]
         ELSE [g EXCEPT !.insurance_outcome =
                            <<[paid |-> FALSE,
                               amount |-> g.insurance_amount]>>,
                        !.insurance_taken = FALSE,
                        !.insurance_amount = 0]
    ELSE IF g.insurance_offer_active
         THEN [g EXCEPT !.insurance_outcome =
                            <<[paid |-> FALSE, amount |-> 0]>>]
         ELSE g

determine_results(g) ==
    LET s == settle_hands(0, [g |-> g, result_set |-> FALSE])
        g1 == IF ~s.result_set THEN SetResult(s.g, "loss") ELSE s.g
        g2 == resolve_insurance(g1)
    IN finalize_round_audit([g2 EXCEPT !.state = GAME_OVER])

\* _finish_game leaving the hole card face down.
finish_game_hole_hidden(g) ==
    finalize_round_audit([g EXCEPT !.state = GAME_OVER,
                                   !.result = "loss"])

\* _finish_game
finish_game(g) ==
    finalize_round_audit([g EXCEPT !.hole_card_hidden = FALSE,
                                   !.state = GAME_OVER,
                                   !.result = "loss"])

\* _move_to_next_hand going back to the first hand after the last one.
move_to_next_hand_wrapping(g) ==
    [g EXCEPT !.current_hand_index =
                  IF @ + 1 >= Len(g.hands) THEN 0 ELSE @ + 1]

\* _move_to_next_hand: the object after the increment; the method returns
\* moved_to_next_hand of that object.
move_to_next_hand(g) == [g EXCEPT !.current_hand_index = @ + 1]

moved_to_next_hand(g) == g.current_hand_index < Len(g.hands)

\* dealer.play_hand(self.deck, self.dealer_hits_soft_17): the possible
\* objects after the dealer has played.
dealer_plays(g) ==
    {[g EXCEPT !.hole_card_hidden = FALSE, !.dealer_hand = o.hand,
               !.deck = o.deck] :
        o \in play_hand(g.dealer_hand, g.deck, g.dealer_hits_soft_17)}

\* The common tail of stand, surrender and double_down when the last hand
\* is finished: DEALER_TURN, dealer play-out, settlement.
dealer_turn(g) ==
    {determine_results(d) :
        d \in dealer_plays([g EXCEPT !.state = DEALER_TURN])}

\* ------------------------------------------------------------------------
\* Dealer peek (_should_dealer_peek, _dealer_peek_and_check_blackjack)
\* ------------------------------------------------------------------------
\* _should_dealer_peek looking for an Ace only.
should_dealer_peek_on_ace(g) ==
    IF Len(g.dealer_hand) < 2 THEN FALSE
    ELSE g.dealer_hand[2] = "A"

should_dealer_peek(g) ==
    IF Len(g.dealer_hand) < 2 THEN FALSE
    ELSE LET upcard == g.dealer_hand[2] IN
         upcard = "A" \/ is_ten_value(upcard)

\* The loop over the player hands when the dealer has blackjack.
RECURSIVE peek_settle_hands(_, _)
peek_settle_hands(i, g) ==
    IF i >= Len(g.hands) THEN g
    ELSE LET g1 == IF is_blackjack(g.hands[i + 1].cards)
                   THEN LET p == push(g, i) IN
                        IF p.result = None THEN SetResult(p, "push") ELSE p
                   ELSE LET l == lose(g, i) IN
                        IF l.result = None THEN SetResult(l, "loss") ELSE l
         IN peek_settle_hands(i + 1, g1)

\* The peek paying the insurance winnings without returning the stake.
dealer_peek_keeps_insurance_stake(g) ==
    IF ~should_dealer_peek(g) THEN [g |-> g, game_over |-> FALSE]
    ELSE IF g.dealer_peeked THEN [g |-> g, game_over |-> FALSE]
    ELSE
    LET g1 == [g EXCEPT !.dealer_peeked = TRUE]
        hole_card == g1.dealer_hand[1]
        upcard == g1.dealer_hand[2]
        is_blackjack_check ==
            \/ hole_card = "A" /\ CardValue(upcard) = 10
            \/ upcard = "A" /\ CardValue(hole_card) = 10
    IN IF is_blackjack_check
       THEN LET g2 == peek_settle_hands(0,
                          [g1 EXCEPT !.hole_card_hidden = FALSE,
                                     !.state = GAME_OVER])
                g3 == IF g2.insurance_taken
                      THEN [g2 EXCEPT !.chips = @ + g2.insurance_amount * 2,
                                      !.insurance_outcome =
                                          <<[paid |-> TRUE,
                                             amount |->
                                                 g2.insurance_amount * 2]>>]
                      ELSE g2
            IN [g |-> finalize_round_audit(g3), game_over |-> TRUE]
       ELSE [g |-> g1, game_over |-> FALSE]

\* The peek revealing the hole card whatever it finds.
dealer_peek_revealing(g) ==
    IF ~should_dealer_peek(g) THEN [g |-> g, game_over |-> FALSE]
    ELSE IF g.dealer_peeked THEN [g |-> g, game_over |-> FALSE]
    ELSE
    LET g1 == [g EXCEPT !.dealer_peeked = TRUE, !.hole_card_hidden = FALSE]
        hole_card == g1.dealer_hand[1]
        upcard == g1.dealer_hand[2]
        is_blackjack_check ==
            \/ hole_card = "A" /\ CardValue(upcard) = 10
            \/ upcard = "A" /\ CardValue(hole_card) = 10
    IN IF is_blackjack_check
       THEN LET g2 == peek_settle_hands(0, [g1 EXCEPT !.state = GAME_OVER])
                g3 == IF g2.insurance_taken
                      THEN [g2 EXCEPT !.chips = @ + g2.insurance_amount * 3,
                                      !.insurance_outcome =
                                          <<[paid |-> TRUE,
                                             amount |->
                                                 g2.insurance_amount * 2]>>]
                      ELSE g2
            IN [g |-> finalize_round_audit(g3), game_over |-> TRUE]
       ELSE [g |-> g1, game_over |-> FALSE]

\* Returns [g, game_over].
dealer_peek_and_check_blackjack(g) ==
    IF ~should_dealer_peek(g) THEN [g |-> g, game_over |-> FALSE]
    ELSE IF g.dealer_peeked THEN [g |-> g, game_over |-> FALSE]
    ELSE
    LET g1 == [g EXCEPT !.dealer_peeked = TRUE]
        hole_card == g1.dealer_hand[1]
        upcard == g1.dealer_hand[2]
        is_blackjack_check ==
            \/ hole_card = "A" /\ CardValue(upcard) = 10
            \/ upcard = "A" /\ CardValue(hole_card) = 10
    IN IF is_blackjack_check
       THEN LET g2 == peek_settle_hands(0,
                          [g1 EXCEPT !.hole_card_hidden = FALSE,
                                     !.state = GAME_OVER])
                g3 == IF g2.insurance_taken
                      THEN [g2 EXCEPT !.chips = @ + g2.insurance_amount * 3,
                                      !.insurance_outcome =
                                          <<[paid |-> TRUE,
                                             amount |->
                                                 g2.insurance_amount * 2]>>]
                      ELSE g2
            IN [g |-> finalize_round_audit(g3), game_over |-> TRUE]
       ELSE [g |-> g1, game_over |-> FALSE]

\* ------------------------------------------------------------------------
\* Forced dealer hand (test hook)
\* ------------------------------------------------------------------------
InShoe(d, rank) == rank \in ShoeRanks /\ d[rank] > 0

\* _force_dealer_hand: takes a card of the hole rank and one of the upcard
\* rank out of the shoe; puts back what it found when one is missing.
force_dealer_hand_cards(g) ==
    IF g.force_dealer_hand = Nothing
    THEN [g EXCEPT !.pending_forced_dealer_cards = Nothing]
    ELSE
    LET hole_rank == g.force_dealer_hand[1]
        upcard_rank == g.force_dealer_hand[2]
        hole_found == InShoe(g.deck, hole_rank)
        d1 == IF hole_found THEN Remove(g.deck, hole_rank) ELSE g.deck
        upcard_found == InShoe(d1, upcard_rank)
        d2 == IF upcard_found THEN Remove(d1, upcard_rank) ELSE d1
    IN IF ~hole_found \/ ~upcard_found
       THEN [g EXCEPT !.pending_forced_dealer_cards = Nothing]
       ELSE [g EXCEPT !.deck = d2,
                      !.pending_forced_dealer_cards =
                          <<hole_rank, upcard_rank>>]

\* ------------------------------------------------------------------------
\* Operations
\* ------------------------------------------------------------------------
\* A call rejected by a precondition check: returns success=false.
Reject(success) == success = FALSE /\ UNCHANGED gameVars

\* BlackjackGame(starting_chips): the game as the constructor leaves it.
Constructed(starting_chips) ==
    /\ state = BETTING
    /\ result = None
    /\ chips = starting_chips
    /\ hands = <<>>
    /\ current_hand_index = 0
    /\ total_wins = 0
    /\ total_losses = 0
    /\ total_blackjacks = 0
    /\ dealer_hand = <<>>
    /\ hole_card_hidden = TRUE
    /\ deck = FullDeck
    /\ dealer_hits_soft_17 = FALSE
    /\ insurance_offer_active = FALSE
    /\ insurance_amount = 0
    /\ insurance_taken = FALSE
    /\ even_money_offer_active = FALSE
    /\ insurance_outcome = Nothing
    /\ dealer_peeked = FALSE
    /\ force_dealer_hand = Nothing
    /\ pending_forced_dealer_cards = Nothing
    /\ round_counter = 0
    /\ current_round_audit = Nothing
    /\ round_history = <<>>
    /\ auto_mode_active = FALSE
    /\ auto_hands_remaining = 0
    /\ auto_default_bet = 0
    /\ auto_insurance_mode = None
    /\ auto_strategy = "basic"
    /\ auto_betting_strategy = "fixed"
    /\ auto_bet_percentage = 0
    /\ auto_double_down_pref = "recommended"
    /\ auto_split_pref = "recommended"
    /\ auto_surrender_pref = "recommended"
    /\ auto_progressive_bet = 0
    /\ auto_last_result = None
    /\ auto_status = None
    /\ cards_dealt = 0
    /\ auto_pc = "idle"
    /\ auto_hands = 0
    /\ auto_rounds = 0

Init == Constructed(StartingChips)

\* new_game without the reshuffle: the shoe is kept whatever it holds.
new_game_keeps_shoe(g, preserve_auto) ==
    LET g0 == [g EXCEPT !.dealer_hand = <<>>,
                        !.hole_card_hidden = TRUE,
                        !.hands = <<Hand(<<>>)>>,
                        !.current_hand_index = 0,
                        !.state = BETTING,
                        !.result = None,
                        !.insurance_offer_active = FALSE,
                        !.insurance_amount = 0,
                        !.insurance_taken = FALSE,
                        !.even_money_offer_active = FALSE,
                        !.insurance_outcome = Nothing,
                        !.dealer_peeked = FALSE,
                        !.pending_forced_dealer_cards = Nothing]
    IN IF ~preserve_auto
       THEN [g0 EXCEPT !.auto_mode_active = FALSE,
                       !.auto_hands_remaining = 0,
                       !.auto_default_bet = 0,
                       !.auto_insurance_mode = None,
                       !.auto_status = None]
       ELSE IF g0.auto_mode_active /\ g0.auto_hands_remaining > 0
            THEN [g0 EXCEPT !.auto_status = "Auto mode running"]
            ELSE g0

\* new_game(preserve_auto): the object after the call.
new_game(g, preserve_auto) ==
    LET g0 == [g EXCEPT !.dealer_hand = <<>>,
                        !.hole_card_hidden = TRUE,
                        !.hands = <<Hand(<<>>)>>,
                        !.current_hand_index = 0,
                        !.state = BETTING,
                        !.result = None,
                        !.insurance_offer_active = FALSE,
                        !.insurance_amount = 0,
                        !.insurance_taken = FALSE,
                        !.even_money_offer_active = FALSE,
                        !.insurance_outcome = Nothing,
                        !.dealer_peeked = FALSE,
                        !.pending_forced_dealer_cards = Nothing]
        g1 == IF ~preserve_auto
              THEN [g0 EXCEPT !.auto_mode_active = FALSE,
                              !.auto_hands_remaining = 0,
                              !.auto_default_bet = 0,
                              !.auto_insurance_mode = None,
                              !.auto_status = None]
              ELSE IF g0.auto_mode_active /\ g0.auto_hands_remaining > 0
                   THEN [g0 EXCEPT !.auto_status = "Auto mode running"]
                   ELSE g0
        min_cards_threshold == TotalCards \div 2
    IN IF DeckLen(g1.deck) < min_cards_threshold
       THEN [g1 EXCEPT !.deck = FullDeck]
       ELSE g1

\* new_game(preserve_auto=False)
NewGame == Becomes(new_game(Self, FALSE)) /\ UNCHANGED cards_dealt

\* Player.place_bet without the deduction of the chips.
player_place_bet_uncharged(g, amount) ==
    IF amount <= 0 THEN [g |-> g, ok |-> FALSE]
    ELSE IF g.chips < amount THEN [g |-> g, ok |-> FALSE]
    ELSE IF 0 >= Len(g.hands) THEN [g |-> g, ok |-> FALSE]
    ELSE [g |-> [g EXCEPT !.hands[1].bet = amount], ok |-> TRUE]

\* Player.place_bet(amount, hand_index=0): [g, ok]
player_place_bet(g, amount) ==
    IF amount <= 0 THEN [g |-> g, ok |-> FALSE]
    ELSE IF g.chips < amount THEN [g |-> g, ok |-> FALSE]
    ELSE IF 0 >= Len(g.hands) THEN [g |-> g, ok |-> FALSE]
    ELSE [g |-> [g EXCEPT !.hands[1].bet = amount, !.chips = @ - amount],
          ok |-> TRUE]

\* BlackjackGame.place_bet(amount): [g, ok], the object after the call and
\* the value of result['success'].
place_bet(g, amount) ==
    IF g.state # BETTING THEN [g |-> g, ok |-> FALSE]
    ELSE IF amount <= 0 THEN [g |-> g, ok |-> FALSE]
    ELSE IF amount < min_bet THEN [g |-> g, ok |-> FALSE]
    ELSE IF amount > max_bet THEN [g |-> g, ok |-> FALSE]
    ELSE IF g.chips < amount THEN [g |-> g, ok |-> FALSE]
    ELSE LET starting_balance == g.chips
             r == player_place_bet(g, amount)
         IN IF r.ok
            THEN [g |-> start_round_audit(r.g, starting_balance, amount),
                  ok |-> TRUE]
            ELSE [g |-> r.g, ok |-> FALSE]

\* place_bet(amount)
PlaceBet(amount, success) ==
    LET r == place_bet(Self, amount) IN Return(r.g, r.ok, success)

\* The branch of deal_initial_cards taken once the four cards are out.
after_deal(g) ==
    LET current_hand == get_current_hand(g)
        player_has_blackjack ==
            IF has_current_hand(g) THEN is_blackjack(current_hand.cards)
            ELSE FALSE
        dealer_shows_ace == Len(g.dealer_hand) >= 2 /\ g.dealer_hand[2] = "A"
    IN
    IF player_has_blackjack /\ dealer_shows_ace
    THEN [g EXCEPT !.even_money_offer_active = TRUE, !.state = PLAYER_TURN]
    ELSE IF player_has_blackjack
    THEN LET g1 == [g EXCEPT !.hole_card_hidden = FALSE] IN
         IF is_blackjack(g1.dealer_hand)
         THEN finalize_round_audit(
                  push([g1 EXCEPT !.state = GAME_OVER, !.result = "push"], 0))
         ELSE finalize_round_audit(
                  win([g1 EXCEPT !.state = GAME_OVER, !.result = "blackjack"],
                      0, TRUE))
    ELSE
    LET g1 == [g EXCEPT !.state = PLAYER_TURN] IN
    IF dealer_shows_ace
    THEN [g1 EXCEPT !.insurance_offer_active = TRUE,
                    !.insurance_amount =
                        (IF has_current_hand(g) THEN current_hand.bet ELSE 0)
                            \div 2]
    ELSE IF should_dealer_peek(g1)
    THEN LET peek_result == dealer_peek_and_check_blackjack(g1) IN
         IF peek_result.game_over
         THEN finalize_round_audit(peek_result.g)
         ELSE peek_result.g
    ELSE g1

\* deal_initial_cards()
DealInitialCards(success) ==
    IF state # BETTING THEN Reject(success)
    ELSE IF ~has_current_hand(Self) \/ get_current_hand(Self).bet = 0
    THEN Reject(success)
    ELSE
    LET g0 == [Self EXCEPT !.state = DEALING]
        g1 == IF g0.force_dealer_hand # Nothing
                 /\ g0.pending_forced_dealer_cards = Nothing
              THEN force_dealer_hand_cards(g0) ELSE g0
        g2 == IF g1.force_dealer_hand # Nothing
              THEN force_dealer_hand_cards(g1) ELSE g1
    IN success /\ \E p \in deal_cards(g2.deck, 2) :
         LET g3 == [g2 EXCEPT
                      !.deck = p.deck,
                      !.hands[g2.current_hand_index + 1].cards = @ \o p.cards]
         IN IF g3.pending_forced_dealer_cards # Nothing
            THEN Return(after_deal(
                     [g3 EXCEPT !.dealer_hand =
                                    @ \o g3.pending_forced_dealer_cards,
                                !.pending_forced_dealer_cards = Nothing]),
                     TRUE, success)
            ELSE \E d \in deal_cards(g3.deck, 2) :
                   Return(after_deal([g3 EXCEPT !.dealer_hand = @ \o d.cards,
                                                !.deck = d.deck]),
                          TRUE, success)

OfferPending == insurance_offer_active \/ even_money_offer_active

\* hit()
Hit(success) ==
    IF state # PLAYER_TURN THEN Reject(success)
    ELSE IF OfferPending THEN Reject(success)
    ELSE IF ~has_current_hand(Self) THEN Reject(success)
    ELSE IF get_current_hand(Self).is_from_split_aces THEN Reject(success)
    ELSE IF Available(deck) = {} THEN Reject(success)
    ELSE success /\ \E card \in Available(deck) :
      LET g1 == [Self EXCEPT !.deck = Remove(deck, card),
                             !.hands[current_hand_index + 1].cards =
                                 Append(@, card)]
          current_hand == get_current_hand(g1)
      IN IF Len(current_hand.cards) = 5 /\ ~is_bust(current_hand.cards)
         THEN LET g2 == move_to_next_hand(win(g1, g1.current_hand_index, FALSE))
              IN IF moved_to_next_hand(g2)
                 THEN Return(g2, TRUE, success)
                 ELSE Return(finalize_round_audit(
                                 [g2 EXCEPT !.hole_card_hidden = FALSE,
                                            !.state = GAME_OVER,
                                            !.result = "win"]),
                             TRUE, success)
         ELSE IF is_bust(current_hand.cards)
         THEN LET g2 == move_to_next_hand(g1)
              IN IF moved_to_next_hand(g2)
                 THEN Return(g2, TRUE, success)
                 ELSE Return(finish_game(g2), TRUE, success)
         ELSE Return(g1, TRUE, success)

\* stand() running the settlement a second time.
stand_settling_twice(success) ==
    IF state # PLAYER_TURN THEN Reject(success)
    ELSE IF OfferPending THEN Reject(success)
    ELSE success /\
         LET g1 == move_to_next_hand(Self)
         IN IF moved_to_next_hand(g1)
            THEN Return(g1, TRUE, success)
            ELSE \E g2 \in dealer_turn(g1) :
                   Return(determine_results(g2), TRUE, success)

\* stand() without the test of the state.
stand_in_any_state(success) ==
    IF OfferPending THEN Reject(success)
    ELSE success /\
         LET g1 == move_to_next_hand(Self)
         IN IF moved_to_next_hand(g1)
            THEN Return(g1, TRUE, success)
            ELSE \E g2 \in dealer_turn(g1) : Return(g2, TRUE, success)

\* stand()
Stand(success) ==
    IF state # PLAYER_TURN THEN Reject(success)
    ELSE IF OfferPending THEN Reject(success)
    ELSE success /\
         LET g1 == move_to_next_hand(Self)
         IN IF moved_to_next_hand(g1)
            THEN Return(g1, TRUE, success)
            ELSE \E g2 \in dealer_turn(g1) : Return(g2, TRUE, success)

\* surrender_refund with the half rounded up.
surrender_refund_rounded_up(hand) == (hand.bet + 1) \div 2

\* surrender_refund = current_hand.bet // 2
surrender_refund(hand) == hand.bet \div 2

\* surrender()
Surrender(success) ==
    IF state # PLAYER_TURN THEN Reject(success)
    ELSE IF OfferPending THEN Reject(success)
    ELSE IF ~has_current_hand(Self) THEN Reject(success)
    ELSE IF Len(get_current_hand(Self).cards) # 2 THEN Reject(success)
    ELSE IF get_current_hand(Self).is_doubled_down THEN Reject(success)
    ELSE IF get_current_hand(Self).is_from_split_aces THEN Reject(success)
    ELSE success /\
    LET g1 == [Self EXCEPT
                   !.hands[current_hand_index + 1].is_surrendered = TRUE,
                   !.chips = @ + surrender_refund(get_current_hand(Self))]
        g2 == move_to_next_hand(g1)
    IN IF moved_to_next_hand(g2)
       THEN Return(g2, TRUE, success)
       ELSE \E g3 \in dealer_turn(g2) : Return(g3, TRUE, success)

\* The charge of double_down() taking the doubled bet.
charge_double_down_in_full(g) ==
    LET i == g.current_hand_index + 1
        g1 == [g EXCEPT !.hands[i].is_doubled_down = TRUE,
                        !.hands[i].bet = @ * 2]
    IN [g1 EXCEPT !.chips = @ - g1.hands[i].bet]

\* Hand.double_down followed by the charge of double_down().
charge_double_down(g) ==
    LET i == g.current_hand_index + 1
        g1 == [g EXCEPT !.hands[i].is_doubled_down = TRUE,
                        !.hands[i].bet = @ * 2]
    IN [g1 EXCEPT !.chips = @ - (g1.hands[i].bet \div 2)]

\* double_down() without the test of the funds.
double_down_unfunded(success) ==
    IF state # PLAYER_TURN THEN Reject(success)
    ELSE IF ~has_current_hand(Self) THEN Reject(success)
    ELSE IF get_current_hand(Self).is_from_split_aces THEN Reject(success)
    ELSE IF ~can_double_down(get_current_hand(Self)) THEN Reject(success)
    ELSE
    LET g1 == charge_double_down(Self)
    IN IF Available(g1.deck) = {}
       THEN Return(g1, FALSE, success)
       ELSE success /\ \E card \in Available(g1.deck) :
         LET g2 == [g1 EXCEPT !.deck = Remove(g1.deck, card),
                              !.hands[g1.current_hand_index + 1].cards =
                                  Append(@, card)]
             g3 == move_to_next_hand(g2)
         IN IF moved_to_next_hand(g3)
            THEN Return(g3, TRUE, success)
            ELSE \E g4 \in dealer_turn(g3) :
                   Return(g4, TRUE, success)

\* double_down()
DoubleDown(success) ==
    IF state # PLAYER_TURN THEN Reject(success)
    ELSE IF ~has_current_hand(Self) THEN Reject(success)
    ELSE IF get_current_hand(Self).is_from_split_aces THEN Reject(success)
    ELSE IF ~can_double_down(get_current_hand(Self)) THEN Reject(success)
    ELSE IF chips < get_current_hand(Self).bet THEN Reject(success)
    ELSE
    LET g1 == charge_double_down(Self)
    IN IF Available(g1.deck) = {}
       THEN Return(g1, FALSE, success)
       ELSE success /\ \E card \in Available(g1.deck) :
         LET g2 == [g1 EXCEPT !.deck = Remove(g1.deck, card),
                              !.hands[g1.current_hand_index + 1].cards =
                                  Append(@, card)]
             g3 == move_to_next_hand(g2)
         IN IF moved_to_next_hand(g3)
            THEN Return(g3, TRUE, success)
            ELSE \E g4 \in dealer_turn(g3) :
                   Return(g4, TRUE, success)

\* split_hand without the charge of the second bet.
split_hand_uncharged(g, hand_index) ==
    IF hand_index >= Len(g.hands) THEN [g |-> g, ok |-> FALSE]
    ELSE
    LET hand == g.hands[hand_index + 1] IN
    IF ~hand_can_split(hand) THEN [g |-> g, ok |-> FALSE]
    ELSE IF g.chips < hand.bet THEN [g |-> g, ok |-> FALSE]
    ELSE
    LET kept == SubSeq(hand.cards, 1, Len(hand.cards) - 1)
        popped == <<hand.cards[Len(hand.cards)]>>
        aces == (kept # <<>> /\ kept[1] = "A")
                   \/ (popped # <<>> /\ popped[1] = "A")
        old_hand == [hand EXCEPT !.cards = kept, !.is_split = TRUE,
                                 !.is_from_split_aces =
                                     IF aces THEN TRUE ELSE @]
        new_hand == [Hand(popped) EXCEPT !.bet = hand.bet, !.is_split = TRUE,
                                         !.is_from_split_aces = aces]
    IN [g |-> [g EXCEPT !.hands = SubSeq(g.hands, 1, hand_index)
                                    \o <<old_hand, new_hand>>
                                    \o SubSeq(g.hands, hand_index + 2,
                                              Len(g.hands))],
        ok |-> TRUE]

\* split_hand flagging only the new hand when Aces are split.
split_hand_flags_new_hand_only(g, hand_index) ==
    IF hand_index >= Len(g.hands) THEN [g |-> g, ok |-> FALSE]
    ELSE
    LET hand == g.hands[hand_index + 1] IN
    IF ~hand_can_split(hand) THEN [g |-> g, ok |-> FALSE]
    ELSE IF g.chips < hand.bet THEN [g |-> g, ok |-> FALSE]
    ELSE
    LET kept == SubSeq(hand.cards, 1, Len(hand.cards) - 1)
        popped == <<hand.cards[Len(hand.cards)]>>
        aces == (kept # <<>> /\ kept[1] = "A")
                   \/ (popped # <<>> /\ popped[1] = "A")
        old_hand == [hand EXCEPT !.cards = kept, !.is_split = TRUE]
        new_hand == [Hand(popped) EXCEPT !.bet = hand.bet, !.is_split = TRUE,
                                         !.is_from_split_aces = aces]
    IN [g |-> [g EXCEPT !.chips = @ - hand.bet,
                        !.hands = SubSeq(g.hands, 1, hand_index)
                                    \o <<old_hand, new_hand>>
                                    \o SubSeq(g.hands, hand_index + 2,
                                              Len(g.hands))],
        ok |-> TRUE]

\* Player.split_hand(hand_index): [g, ok]
split_hand(g, hand_index) ==
    IF hand_index >= Len(g.hands) THEN [g |-> g, ok |-> FALSE]
    ELSE
    LET hand == g.hands[hand_index + 1] IN
    IF ~hand_can_split(hand) THEN [g |-> g, ok |-> FALSE]
    ELSE IF g.chips < hand.bet THEN [g |-> g, ok |-> FALSE]
    ELSE
    LET kept == SubSeq(hand.cards, 1, Len(hand.cards) - 1)
        popped == <<hand.cards[Len(hand.cards)]>>
        aces == (kept # <<>> /\ kept[1] = "A")
                   \/ (popped # <<>> /\ popped[1] = "A")
        old_hand == [hand EXCEPT !.cards = kept, !.is_split = TRUE,
                                 !.is_from_split_aces =
                                     IF aces THEN TRUE ELSE @]
        new_hand == [Hand(popped) EXCEPT !.bet = hand.bet, !.is_split = TRUE,
                                         !.is_from_split_aces = aces]
    IN [g |-> [g EXCEPT !.chips = @ - hand.bet,
                        !.hands = SubSeq(g.hands, 1, hand_index)
                                    \o <<old_hand, new_hand>>
                                    \o SubSeq(g.hands, hand_index + 2,
                                              Len(g.hands))],
        ok |-> TRUE]

\* The loop of split() that deals one card to every hand holding exactly
\* one card, in hand order, skipping a hand when the shoe is empty.
RECURSIVE deal_to_single_card_hands(_, _)
deal_to_single_card_hands(i, g) ==
    IF i >= Len(g.hands) THEN {g}
    ELSE IF Len(g.hands[i + 1].cards) = 1 /\ Available(g.deck) # {}
    THEN UNION {deal_to_single_card_hands(i + 1,
                    [g EXCEPT !.deck = Remove(g.deck, card),
                              !.hands[i + 1].cards = Append(@, card)]) :
                card \in Available(g.deck)}
    ELSE deal_to_single_card_hands(i + 1, g)

\* split()
Split(success) ==
    IF state # PLAYER_TURN THEN Reject(success)
    ELSE IF ~has_current_hand(Self) THEN Reject(success)
    ELSE IF get_current_hand(Self).is_from_split_aces THEN Reject(success)
    ELSE IF ~hand_can_split(get_current_hand(Self)) THEN Reject(success)
    ELSE IF Len(hands) >= 4 THEN Reject(success)
    ELSE IF chips < get_current_hand(Self).bet THEN Reject(success)
    ELSE LET r == split_hand(Self, current_hand_index) IN
         IF ~r.ok THEN Return(r.g, FALSE, success)
         ELSE success /\ \E g1 \in deal_to_single_card_hands(0, r.g) :
                Return([g1 EXCEPT !.state = PLAYER_TURN], TRUE, success)

Decisions == {"buy", "decline", "even_money"}

\* Even money paid like a blackjack, 3:2.
even_money_pays_blackjack(hand) == BlackjackPayout(hand.bet)

\* payout = current_hand.bet * 2
even_money_payout(hand) == hand.bet * 2

\* insurance_decision returning without the dealer's peek.
insurance_decision_without_peek(decision, success) ==
    IF state # PLAYER_TURN THEN Reject(success)
    ELSE IF ~OfferPending THEN Reject(success)
    ELSE IF ~has_current_hand(Self) THEN Reject(success)
    ELSE IF even_money_offer_active
    THEN IF decision = "even_money"
         THEN LET payout == even_money_payout(get_current_hand(Self))
                  g1 == [Self EXCEPT !.chips = @ + payout,
                                     !.result = "even_money",
                                     !.even_money_offer_active = FALSE,
                                     !.insurance_offer_active = FALSE,
                                     !.insurance_taken = FALSE,
                                     !.state = GAME_OVER]
              IN Return(finalize_round_audit(g1), TRUE, success)
         ELSE IF decision = "decline"
         THEN LET g1 == [Self EXCEPT !.even_money_offer_active = FALSE,
                                     !.hole_card_hidden = FALSE]
              IN IF is_blackjack(g1.dealer_hand)
                 THEN Return(finalize_round_audit(
                                 push([g1 EXCEPT !.state = GAME_OVER,
                                                 !.result = "push"], 0)),
                             TRUE, success)
                 ELSE Return(finalize_round_audit(
                                 win([g1 EXCEPT !.state = GAME_OVER,
                                                !.result = "blackjack"],
                                     0, TRUE)),
                             TRUE, success)
         ELSE Reject(success)
    ELSE
         IF decision = "buy"
         THEN IF chips < insurance_amount THEN Reject(success)
              ELSE LET g1 == [Self EXCEPT !.chips = @ - insurance_amount,
                                          !.insurance_taken = TRUE,
                                          !.insurance_offer_active = FALSE]
                   IN Return(g1,
                             TRUE, success)
         ELSE IF decision = "decline"
         THEN LET g1 == [Self EXCEPT !.insurance_offer_active = FALSE,
                                     !.insurance_taken = FALSE]
              IN Return(g1,
                        TRUE, success)
         ELSE Reject(success)

\* insurance_decision(decision)
InsuranceDecision(decision, success) ==
    IF state # PLAYER_TURN THEN Reject(success)
    ELSE IF ~OfferPending THEN Reject(success)
    ELSE IF ~has_current_hand(Self) THEN Reject(success)
    ELSE IF even_money_offer_active
    THEN IF decision = "even_money"
         THEN LET payout == even_money_payout(get_current_hand(Self))
                  g1 == [Self EXCEPT !.chips = @ + payout,
                                     !.result = "even_money",
                                     !.even_money_offer_active = FALSE,
                                     !.insurance_offer_active = FALSE,
                                     !.insurance_taken = FALSE,
                                     !.state = GAME_OVER]
              IN Return(finalize_round_audit(g1), TRUE, success)
         ELSE IF decision = "decline"
         THEN LET g1 == [Self EXCEPT !.even_money_offer_active = FALSE,
                                     !.hole_card_hidden = FALSE]
              IN IF is_blackjack(g1.dealer_hand)
                 THEN Return(finalize_round_audit(
                                 push([g1 EXCEPT !.state = GAME_OVER,
                                                 !.result = "push"], 0)),
                             TRUE, success)
                 ELSE Return(finalize_round_audit(
                                 win([g1 EXCEPT !.state = GAME_OVER,
                                                !.result = "blackjack"],
                                     0, TRUE)),
                             TRUE, success)
         ELSE Reject(success)
    ELSE
         IF decision = "buy"
         THEN IF chips < insurance_amount THEN Reject(success)
              ELSE LET g1 == [Self EXCEPT !.chips = @ - insurance_amount,
                                          !.insurance_taken = TRUE,
                                          !.insurance_offer_active = FALSE]
                   IN Return(dealer_peek_and_check_blackjack(g1).g,
                             TRUE, success)
         ELSE IF decision = "decline"
         THEN LET g1 == [Self EXCEPT !.insurance_offer_active = FALSE,
                                     !.insurance_taken = FALSE]
              IN Return(dealer_peek_and_check_blackjack(g1).g,
                        TRUE, success)
         ELSE Reject(success)

\* ------------------------------------------------------------------------
\* Auto-play (start_auto_mode, stop_auto_mode, run_auto_cycle)
\* ------------------------------------------------------------------------
\* Arguments offered to start_auto_mode.  0 stands for a missing
\* bet_percentage.  The hit/stand strategies differ only against a dealer
\* card 2-6 and are represented by "basic".
AutoDefaultBets == {0, 3, 5, 11}
MaxAutoHands == 2
AutoInsuranceModes == {"always", "never", "sometimes"}
AutoBettingStrategies == {"fixed", "progressive", "percentage"}
AutoBetPercentages == {0, 50, 100}
\* <<double_down_pref, split_pref, surrender_pref>>
AutoPrefs == {<<"recommended", "recommended", "recommended">>,
              <<"always", "never", "never">>,
              <<"never", "always", "never">>,
              <<"never", "never", "always">>}
AutoConfigs ==
    {cfg \in [default_bet : AutoDefaultBets,
              hands : 0..MaxAutoHands,
              insurance_mode : AutoInsuranceModes,
              betting_strategy : AutoBettingStrategies,
              bet_percentage : AutoBetPercentages,
              prefs : AutoPrefs] :
        cfg.betting_strategy = "percentage" \/ cfg.bet_percentage = 0}

AutoStarted == "Auto mode started"
AutoStartMessages ==
    {"Auto mode started", "Auto mode already running",
     "Default bet must be greater than 0", "Hands must be greater than 0",
     "Invalid insurance preference", "Valid bet percentage (1-100) required",
     "Insufficient bankroll for auto mode",
     "Finish current round before starting"}
AutoFinished == "Auto mode finished"
AutoInsufficient == "Auto mode stopped: insufficient bankroll"
AutoInsufficientStart == "Insufficient bankroll for auto mode"
\* f'Auto mode running ({n} hands remaining)', without the number.
AutoRunning == "Auto mode running"

\* int(chips * bet_percentage / 100), at least 1
percentage_bet(g_chips, bet_percentage) ==
    LET b == (g_chips * bet_percentage) \div 100 IN IF b < 1 THEN 1 ELSE b

\* start_auto_mode(...): [g, message]; the log file is taken to open.
start_auto_mode(g, cfg) ==
    IF g.auto_mode_active
    THEN [g |-> g, message |-> "Auto mode already running"]
    ELSE IF cfg.default_bet <= 0
    THEN [g |-> g, message |-> "Default bet must be greater than 0"]
    ELSE IF cfg.hands <= 0
    THEN [g |-> g, message |-> "Hands must be greater than 0"]
    ELSE IF cfg.insurance_mode \notin {"always", "never"}
    THEN [g |-> g, message |-> "Invalid insurance preference"]
    ELSE IF /\ cfg.betting_strategy = "percentage"
            /\ (cfg.bet_percentage <= 0 \/ cfg.bet_percentage > 100)
    THEN [g |-> g, message |-> "Valid bet percentage (1-100) required"]
    ELSE IF /\ cfg.betting_strategy = "percentage"
            /\ g.chips < percentage_bet(g.chips, cfg.bet_percentage)
    THEN [g |-> g, message |-> AutoInsufficientStart]
    ELSE IF cfg.betting_strategy # "percentage" /\ g.chips < cfg.default_bet
    THEN [g |-> g, message |-> AutoInsufficientStart]
    ELSE IF g.state \notin {BETTING, GAME_OVER}
    THEN [g |-> g, message |-> "Finish current round before starting"]
    ELSE
    LET g1 == IF g.state = GAME_OVER THEN new_game(g, FALSE) ELSE g
    IN [g |-> [g1 EXCEPT !.auto_mode_active = TRUE,
                         !.auto_hands_remaining = cfg.hands,
                         !.auto_default_bet = cfg.default_bet,
                         !.auto_insurance_mode = cfg.insurance_mode,
                         !.auto_strategy = "basic",
                         !.auto_betting_strategy = cfg.betting_strategy,
                         !.auto_bet_percentage = cfg.bet_percentage,
                         !.auto_double_down_pref = cfg.prefs[1],
                         !.auto_split_pref = cfg.prefs[2],
                         !.auto_surrender_pref = cfg.prefs[3],
                         !.auto_progressive_bet = cfg.default_bet,
                         !.auto_last_result = None,
                         !.auto_status = AutoRunning],
        message |-> AutoStarted]

\* stop_auto_mode(status)
stop_auto_mode(g, status) ==
    [g EXCEPT !.auto_mode_active = FALSE,
              !.auto_hands_remaining = 0,
              !.auto_default_bet = 0,
              !.auto_insurance_mode = None,
              !.auto_strategy = "basic",
              !.auto_betting_strategy = "fixed",
              !.auto_bet_percentage = 0,
              !.auto_double_down_pref = "recommended",
              !.auto_split_pref = "recommended",
              !.auto_surrender_pref = "recommended",
              !.auto_progressive_bet = 0,
              !.auto_last_result = None,
              !.auto_status = status]

is_auto_mode_active(g) == g.auto_mode_active /\ g.auto_hands_remaining > 0

\* dealer_up_card = self.dealer.hand[0] if self.dealer.hand else None
dealer_up_card(g) == IF g.dealer_hand # <<>> THEN g.dealer_hand[1] ELSE None

LowDealerRanks == {"2", "3", "4", "5", "6"}
HighDealerRanks == {"7", "8", "9", "10", "J", "Q", "K", "A"}

\* _get_auto_play_decision
get_auto_play_decision(g) ==
    IF ~has_current_hand(g) \/ is_bust(get_current_hand(g).cards)
    THEN "stand"
    ELSE
    LET player_value == calculate_hand_value(get_current_hand(g).cards)
        dealer_rank == dealer_up_card(g)
        strategy == g.auto_strategy
    IN IF dealer_rank = None THEN "stand"
       ELSE IF dealer_rank \in LowDealerRanks /\ strategy = "basic"
       THEN "stand"
       ELSE IF dealer_rank \in LowDealerRanks /\ strategy = "conservative"
       THEN IF player_value >= 13 THEN "stand" ELSE "hit"
       ELSE IF dealer_rank \in LowDealerRanks /\ strategy = "aggressive"
       THEN IF player_value >= 18 THEN "stand" ELSE "hit"
       ELSE IF dealer_rank \in HighDealerRanks /\ strategy = "basic"
       THEN IF player_value > 16 THEN "stand" ELSE "hit"
       ELSE IF dealer_rank \in HighDealerRanks
               /\ strategy \in {"conservative", "aggressive"}
       THEN IF player_value >= 17 THEN "stand" ELSE "hit"
       ELSE "stand"

\* _should_double_down
should_double_down(g) ==
    LET pref == g.auto_double_down_pref
        current_hand == get_current_hand(g)
        player_value == calculate_hand_value(current_hand.cards)
        dealer_rank == dealer_up_card(g)
    IN IF pref = "never" THEN FALSE
       ELSE IF pref = "always"
       THEN /\ has_current_hand(g)
            /\ can_double_down(current_hand)
            /\ g.chips >= current_hand.bet
       ELSE IF \/ ~has_current_hand(g)
               \/ ~can_double_down(current_hand)
               \/ g.chips < current_hand.bet
       THEN FALSE
       ELSE IF dealer_rank = None THEN FALSE
       ELSE IF player_value \in {9, 10, 11} /\ dealer_rank \in LowDealerRanks
       THEN TRUE
       ELSE /\ Len(current_hand.cards) = 2
            /\ \E i \in 1..2 : current_hand.cards[i] = "A"
            /\ player_value \in 13..18
            /\ dealer_rank \in {"4", "5", "6"}

\* _should_split
should_split(g) ==
    LET pref == g.auto_split_pref
        current_hand == get_current_hand(g)
        card1_rank == current_hand.cards[1]
        dealer_rank == dealer_up_card(g)
        allowed == /\ has_current_hand(g)
                   /\ hand_can_split(current_hand)
                   /\ Len(g.hands) < 4
                   /\ g.chips >= current_hand.bet
    IN IF pref = "never" THEN FALSE
       ELSE IF pref = "always" THEN allowed
       ELSE IF ~allowed THEN FALSE
       ELSE IF dealer_rank = None THEN FALSE
       ELSE \/ card1_rank \in {"A", "8"}
            \/ /\ card1_rank \in {"2", "3", "6", "7", "9"}
               /\ dealer_rank \in LowDealerRanks
            \/ card1_rank = "4" /\ dealer_rank \in {"5", "6"}

\* _should_surrender
should_surrender(g) ==
    LET pref == g.auto_surrender_pref
        current_hand == get_current_hand(g)
        player_value == calculate_hand_value(current_hand.cards)
        dealer_rank == dealer_up_card(g)
    IN IF pref = "never" THEN FALSE
       ELSE IF \/ ~has_current_hand(g)
               \/ Len(current_hand.cards) # 2
               \/ is_blackjack(current_hand.cards)
       THEN FALSE
       ELSE IF pref = "always" THEN TRUE
       ELSE IF dealer_rank = None THEN FALSE
       ELSE \/ dealer_rank = "10" /\ player_value \in {15, 16}
            \/ dealer_rank = "9" /\ player_value = 16

\* The bet of the round: [g, bet_amount]; the progressive strategy records
\* the bet in auto_progressive_bet.
auto_bet_amount(g) ==
    IF g.auto_betting_strategy = "fixed"
    THEN [g |-> g, bet_amount |-> g.auto_default_bet]
    ELSE IF g.auto_betting_strategy = "progressive"
    THEN LET prev_bet == IF g.auto_progressive_bet > 0
                         THEN g.auto_progressive_bet
                         ELSE g.auto_default_bet
             doubled == IF prev_bet * 2 < max_bet THEN prev_bet * 2
                        ELSE max_bet
             bet == IF g.auto_last_result = "loss"
                    THEN IF doubled > g.auto_default_bet THEN doubled
                         ELSE g.auto_default_bet
                    ELSE g.auto_default_bet
         IN [g |-> [g EXCEPT !.auto_progressive_bet = bet],
             bet_amount |-> bet]
    ELSE IF g.auto_betting_strategy = "percentage"
    THEN LET bet == percentage_bet(g.chips, g.auto_bet_percentage)
         IN [g |-> g, bet_amount |-> IF bet < max_bet THEN bet ELSE max_bet]
    ELSE [g |-> g, bet_amount |-> g.auto_default_bet]

\* The bankroll check skipped.
bankroll_check_skipped(g, bet_amount) == FALSE

\* The bankroll check of run_auto_cycle: self.player.chips < bet_amount
bankroll_check_failed(g, bet_amount) == g.chips < bet_amount

\* The statement after the loop of run_auto_cycle.
auto_cycle_exit(g) ==
    IF ~g.auto_mode_active /\ g.auto_status = None
    THEN [g EXCEPT !.auto_status = "Auto mode stopped"]
    ELSE g

\* The end of a round of run_auto_cycle: one round less to play, then
\* stop_auto_mode or new_game(preserve_auto=True).
auto_round_done(g) ==
    LET g1 == [g EXCEPT !.auto_hands_remaining = @ - 1]
    IN IF g1.auto_hands_remaining <= 0
       THEN stop_auto_mode(g1, AutoFinished)
       ELSE new_game([g1 EXCEPT !.auto_status = AutoRunning], TRUE)

\* The positions of run_auto_cycle at which a call has failed and
\* stop_auto_mode(f"Auto mode stopped: {message}") follows.
AutoFailedAt == {"failed_deal", "failed_insurance", "failed_even_money",
                 "failed_surrender", "failed_stand", "failed_hit"}

\* f"Auto mode stopped: {message}", with the failed call for its message.
AutoStoppedBy(pc) ==
    CASE pc = "failed_place_bet" -> "Auto mode stopped: place_bet failed"
      [] pc = "failed_deal" -> "Auto mode stopped: deal_initial_cards failed"
      [] pc = "failed_insurance" -> "Auto mode stopped: insurance failed"
      [] pc = "failed_even_money" -> "Auto mode stopped: even money failed"
      [] pc = "failed_surrender" -> "Auto mode stopped: surrender failed"
      [] pc = "failed_stand" -> "Auto mode stopped: stand failed"
      [] pc = "failed_hit" -> "Auto mode stopped: hit failed"

\* The position after a call of the action loop that neither failed nor
\* left the loop by break.
AutoLoopTest == IF state' = PLAYER_TURN THEN "player" ELSE "after"

\* The auto_mode/start request (routes.py): start_auto_mode(...) and, when
\* it succeeds, run_auto_cycle(), whose steps follow.
StartAutoMode(cfg, message) ==
    /\ auto_pc = "idle"
    /\ LET r == start_auto_mode(Self, cfg)
       IN /\ message = r.message
          /\ Becomes(r.g)
          /\ IF r.message = AutoStarted
             THEN /\ auto_pc' = "loop"
                  /\ auto_hands' = cfg.hands
                  /\ auto_rounds' = 0
             ELSE UNCHANGED driverVars
    /\ UNCHANGED cards_dealt

\* run_auto_cycle, top of the loop: the loop test, then new_game when the
\* state is not BETTING, the bet of the round, the bankroll check and
\* place_bet.
AutoPlaceBet ==
    /\ auto_pc = "loop"
    /\ UNCHANGED <<cards_dealt, auto_hands, auto_rounds>>
    /\ IF ~is_auto_mode_active(Self)
       THEN Becomes(auto_cycle_exit(Self)) /\ auto_pc' = "returned"
       ELSE
       LET g1 == IF state # BETTING THEN new_game(Self, TRUE) ELSE Self
           b == auto_bet_amount(g1)
           r == place_bet(b.g, b.bet_amount)
       IN IF bankroll_check_failed(b.g, b.bet_amount)
          THEN /\ Becomes(auto_cycle_exit(
                              stop_auto_mode(b.g, AutoInsufficient)))
               /\ auto_pc' = "returned"
          ELSE IF ~r.ok
          THEN /\ Becomes(auto_cycle_exit(
                              stop_auto_mode(r.g,
                                  AutoStoppedBy("failed_place_bet"))))
               /\ auto_pc' = "returned"
          ELSE Becomes(r.g) /\ auto_pc' = "deal"

\* run_auto_cycle: deal_initial_cards()
AutoDeal ==
    /\ auto_pc = "deal"
    /\ UNCHANGED <<auto_hands, auto_rounds>>
    /\ \E success \in BOOLEAN :
         /\ DealInitialCards(success)
         /\ auto_pc' = IF ~success THEN "failed_deal"
                       ELSE IF insurance_offer_active' THEN "insurance"
                       ELSE IF even_money_offer_active' THEN "even_money"
                       ELSE AutoLoopTest

\* run_auto_cycle: the answer to an insurance or even-money offer.
AutoInsuranceDecision ==
    /\ auto_pc \in {"insurance", "even_money"}
    /\ UNCHANGED <<auto_hands, auto_rounds>>
    /\ \E success \in BOOLEAN :
         IF auto_pc = "insurance"
         THEN /\ InsuranceDecision(IF auto_insurance_mode = "always"
                                   THEN "buy" ELSE "decline", success)
              /\ auto_pc' = IF ~success THEN "failed_insurance"
                            ELSE IF even_money_offer_active'
                            THEN "even_money"
                            ELSE AutoLoopTest
         ELSE /\ InsuranceDecision(IF auto_insurance_mode = "always"
                                   THEN "even_money" ELSE "decline", success)
              /\ auto_pc' = IF ~success THEN "failed_even_money"
                            ELSE IF state' = GAME_OVER THEN "even_money_done"
                            ELSE AutoLoopTest

\* run_auto_cycle: one pass of the action loop "while state ==
\* PLAYER_TURN".  A pass goes on after a failed split ("after_split") and
\* after a failed double_down ("after_double").
AutoPlayerAction ==
    /\ auto_pc \in {"player", "after_split", "after_double", "stand_aces"}
    /\ UNCHANGED <<auto_hands, auto_rounds>>
    /\ IF ~has_current_hand(Self)
       THEN UNCHANGED gameVars /\ auto_pc' = "after"
       ELSE IF auto_pc = "player" /\ should_surrender(Self)
       THEN \E success \in BOOLEAN :
              /\ Surrender(success)
              /\ auto_pc' = IF ~success THEN "failed_surrender"
                            ELSE AutoLoopTest
       ELSE IF auto_pc = "player" /\ should_split(Self)
       THEN \E success \in BOOLEAN :
              /\ Split(success)
              /\ auto_pc' = IF ~success THEN "after_split" ELSE AutoLoopTest
       ELSE IF /\ auto_pc \in {"player", "after_split"}
               /\ get_current_hand(Self).is_from_split_aces
       THEN \E success \in BOOLEAN :
              /\ Stand(success)
              /\ auto_pc' = IF ~success THEN "failed_stand" ELSE AutoLoopTest
       ELSE IF auto_pc \in {"player", "after_split"} /\ should_double_down(Self)
       THEN \E success \in BOOLEAN :
              /\ DoubleDown(success)
              /\ auto_pc' = IF ~success THEN "after_double" ELSE AutoLoopTest
       ELSE IF auto_pc # "stand_aces" /\ get_auto_play_decision(Self) = "hit"
       THEN \E success \in BOOLEAN :
              /\ Hit(success)
              /\ auto_pc' =
                   IF ~success
                   THEN IF get_current_hand(Self).is_from_split_aces
                        THEN "stand_aces" ELSE "failed_hit"
                   ELSE IF is_bust(hands'[current_hand_index + 1].cards)
                   THEN "after"
                   ELSE AutoLoopTest
       ELSE \E success \in BOOLEAN :
              /\ Stand(success)
              /\ auto_pc' = IF ~success THEN "failed_stand"
                            ELSE IF auto_pc = "stand_aces" THEN AutoLoopTest
                            ELSE "after"

\* run_auto_cycle: stop_auto_mode after a failed call, and the return.
AutoStop ==
    /\ auto_pc \in AutoFailedAt
    /\ Becomes(auto_cycle_exit(stop_auto_mode(Self, AutoStoppedBy(auto_pc))))
    /\ auto_pc' = "returned"
    /\ UNCHANGED <<cards_dealt, auto_hands, auto_rounds>>

\* run_auto_cycle, end of a round: the forced settlement when the state is
\* not GAME_OVER, the result kept for the progressive bet, and the count of
\* the round; after an even-money decision only the count.
AutoRoundDone ==
    /\ auto_pc \in {"after", "even_money_done"}
    /\ LET g1 == IF auto_pc = "after" /\ state # GAME_OVER
                 THEN determine_results(Self) ELSE Self
           g2 == IF auto_pc = "after"
                 THEN [g1 EXCEPT !.auto_last_result = g1.result]
                 ELSE g1
       IN Becomes(auto_round_done(g2))
    /\ auto_pc' = "loop"
    /\ auto_rounds' = auto_rounds + 1
    /\ UNCHANGED <<cards_dealt, auto_hands>>

\* The auto_mode/start request on a game created and opened with new_game.
AutoNext ==
    \/ /\ auto_pc = "idle"
       /\ NewGame
       /\ UNCHANGED driverVars
    \/ /\ auto_pc = "idle"
       /\ \E cfg \in AutoConfigs, message \in AutoStartMessages :
              StartAutoMode(cfg, message)
    \/ AutoPlaceBet
    \/ AutoDeal
    \/ AutoInsuranceDecision
    \/ AutoPlayerAction
    \/ AutoStop
    \/ AutoRoundDone

AutoSpec == Init /\ [][AutoNext]_vars

\* Auto-play with the progressive betting strategy on the minimum bet,
\* for a player who can pay a lost bet and its double.
ProgressiveConfigs ==
    [default_bet : {min_bet},
     hands : {ProgressiveHands},
     insurance_mode : {"always", "never"},
     betting_strategy : {"progressive"},
     bet_percentage : {0},
     prefs : {<<"recommended", "recommended", "recommended">>}]

ProgressiveNext ==
    \/ /\ auto_pc = "idle"
       /\ NewGame
       /\ UNCHANGED driverVars
    \/ /\ auto_pc = "idle"
       /\ \E cfg \in ProgressiveConfigs, message \in AutoStartMessages :
              StartAutoMode(cfg, message)
    \/ AutoPlaceBet
    \/ AutoDeal
    \/ AutoInsuranceDecision
    \/ AutoPlayerAction
    \/ AutoStop
    \/ AutoRoundDone

ProgressiveSpec == Constructed(SplitTableChips) /\ [][ProgressiveNext]_vars

\* Hands offered to set_force_dealer_hand, <<hole rank, upcard rank>>: a
\* blackjack, a string that is not a pair of ranks, and None to clear.
ForceRequests == {<<"K", "A">>, <<"A">>, Nothing}

\* set_force_dealer_hand(hand_string)
SetForceDealerHand(hand_string, success) ==
    IF hand_string # Nothing
    THEN IF Len(hand_string) # 2 THEN Reject(success)
         ELSE IF hand_string[1] \notin RANKS \/ hand_string[2] \notin RANKS
         THEN Reject(success)
         ELSE Return([Self EXCEPT !.force_dealer_hand = hand_string,
                                  !.pending_forced_dealer_cards = Nothing],
                     TRUE, success)
    ELSE Return([Self EXCEPT !.force_dealer_hand = Nothing,
                             !.pending_forced_dealer_cards = Nothing],
                TRUE, success)

\* Dealer.add_card(card), with any card: the hands the valuation functions
\* of deck.py are checked on.
AddCard(rank) ==
    /\ Len(dealer_hand) < MaxHandLen
    /\ dealer_hand' = Append(dealer_hand, rank)
    /\ UNCHANGED <<state, result, playerVars, hole_card_hidden, deck,
                   dealer_hits_soft_17, offerVars, forceVars, auditVars,
                   autoVars, cards_dealt, driverVars>>

HandNext == \E rank \in RANKS : AddCard(rank)

HandSpec == Init /\ [][HandNext]_vars

\* Hand.add_card(card) on the player's hand, with any card.
AddPlayerCard(rank) ==
    /\ hands # <<>>
    /\ Len(hands[1].cards) < InitialCards
    /\ hands' = [hands EXCEPT ![1].cards = Append(@, rank)]
    /\ UNCHANGED <<state, result, chips, current_hand_index, total_wins,
                   total_losses, total_blackjacks, dealerVars, deck,
                   dealer_hits_soft_17, offerVars, forceVars, auditVars,
                   autoVars, cards_dealt, driverVars>>

\* The hands the auto-play decisions are taken on: two cards of any rank
\* for the player and two for the dealer, hole card first.
DecisionNext ==
    \/ NewGame /\ UNCHANGED driverVars
    \/ \E rank \in RANKS : AddPlayerCard(rank)
    \/ \E rank \in RANKS : Len(dealer_hand) < InitialCards /\ AddCard(rank)

DecisionSpec == Init /\ [][DecisionNext]_vars

\* The audit of many rounds: _start_round_audit as place_bet calls it and
\* _finalize_round_audit as the end of a round calls it (and as a second
\* call in the same round would), the play in between left out.
StartRoundAudit ==
    /\ round_counter < MaxRounds
    /\ current_round_audit = Nothing
    /\ Becomes(start_round_audit(Self, chips, min_bet))
    /\ UNCHANGED <<cards_dealt, driverVars>>

FinalizeRoundAudit ==
    /\ Becomes(finalize_round_audit(Self))
    /\ UNCHANGED <<cards_dealt, driverVars>>

AuditNext == StartRoundAudit \/ FinalizeRoundAudit

AuditSpec == Init /\ [][AuditNext]_vars

\* The operations called by a player at the table, one call per step.
Next ==
    \/ NewGame /\ UNCHANGED driverVars
    \/ \E amount \in BetAmounts, success \in BOOLEAN :
           PlaceBet(amount, success) /\ UNCHANGED driverVars
    \/ \E success \in BOOLEAN :
           DealInitialCards(success) /\ UNCHANGED driverVars
    \/ \E success \in BOOLEAN : Hit(success) /\ UNCHANGED driverVars
    \/ \E success \in BOOLEAN : Stand(success) /\ UNCHANGED driverVars
    \/ \E success \in BOOLEAN : Surrender(success) /\ UNCHANGED driverVars
    \/ \E success \in BOOLEAN : DoubleDown(success) /\ UNCHANGED driverVars
    \/ \E success \in BOOLEAN : Split(success) /\ UNCHANGED driverVars
    \/ \E decision \in Decisions, success \in BOOLEAN :
           InsuranceDecision(decision, success) /\ UNCHANGED driverVars

Spec == Init /\ [][Next]_vars

\* The first round of a player who starts with the chips for a bet, a
\* split and a double: new_game is called before the first bet only.
SplitTableNext ==
    \/ round_counter = 0 /\ NewGame /\ UNCHANGED driverVars
    \/ \E amount \in BetAmounts, success \in BOOLEAN :
           PlaceBet(amount, success) /\ UNCHANGED driverVars
    \/ \E success \in BOOLEAN :
           DealInitialCards(success) /\ UNCHANGED driverVars
    \/ \E success \in BOOLEAN : Hit(success) /\ UNCHANGED driverVars
    \/ \E success \in BOOLEAN : Stand(success) /\ UNCHANGED driverVars
    \/ \E success \in BOOLEAN : Surrender(success) /\ UNCHANGED driverVars
    \/ \E success \in BOOLEAN : DoubleDown(success) /\ UNCHANGED driverVars
    \/ \E success \in BOOLEAN : Split(success) /\ UNCHANGED driverVars
    \/ \E decision \in Decisions, success \in BOOLEAN :
           InsuranceDecision(decision, success) /\ UNCHANGED driverVars

SplitTableSpec == Constructed(SplitTableChips) /\ [][SplitTableNext]_vars

\* The table with the test hook that forces the dealer's hand.
ForceNext ==
    \/ Next
    \/ \E hand_string \in ForceRequests, success \in BOOLEAN :
           SetForceDealerHand(hand_string, success) /\ UNCHANGED driverVars

ForceSpec == Init /\ [][ForceNext]_vars

\* ------------------------------------------------------------------------
\* Properties
\* ------------------------------------------------------------------------
\* A step of some call that returns success=false.
FailedCall ==
    \/ \E amount \in BetAmounts : PlaceBet(amount, FALSE)
    \/ DealInitialCards(FALSE)
    \/ Hit(FALSE)
    \/ Stand(FALSE)
    \/ Surrender(FALSE)
    \/ DoubleDown(FALSE)
    \/ Split(FALSE)
    \/ \E decision \in Decisions : InsuranceDecision(decision, FALSE)

\* C1: a call of hit, stand, double_down, split, surrender,
\* insurance_decision, place_bet or deal_initial_cards that returns
\* success=false leaves the whole game state as it was, also when the shoe
\* is empty.
C1_RejectedCallChangesNothing == [][FailedCall => UNCHANGED vars]_vars

\* C2: while an insurance or even-money offer is pending, no call of hit,
\* stand, double_down, split or surrender succeeds.
C2_OfferBlocksPlayerActions ==
    [][OfferPending => ~(\/ Hit(TRUE)
                         \/ Stand(TRUE)
                         \/ DoubleDown(TRUE)
                         \/ Split(TRUE)
                         \/ Surrender(TRUE))]_vars

\* C3: a round played with one hand of bet b, not split, not doubled, not
\* surrendered and without insurance, that ends by the player standing,
\* leaves chips at the balance before the bet plus b when the dealer busts
\* or the player's value is higher, at that balance when the values are
\* equal, and at that balance minus b when the dealer's value is higher.
C3_StandSettlesSingleHand ==
    [][(/\ state' = GAME_OVER
        /\ Len(hands) = 1
        /\ ~hands[1].is_split
        /\ ~hands[1].is_doubled_down
        /\ ~hands[1].is_surrendered
        /\ ~insurance_taken
        /\ Stand(TRUE))
       => /\ current_round_audit # Nothing
          /\ LET b == hands[1].bet
                 before == current_round_audit[1].starting_balance
                 player_value == calculate_hand_value(hands[1].cards)
                 dealer_value == calculate_hand_value(dealer_hand')
             IN chips' = IF is_bust(dealer_hand') \/ player_value > dealer_value
                         THEN before + b
                         ELSE IF player_value = dealer_value
                              THEN before
                              ELSE before - b]_vars

\* A single hand has been stood on and the dealer has drawn to a bust.
C3_Witness ==
    /\ state = GAME_OVER
    /\ Len(hands) = 1
    /\ ~hands[1].is_split /\ ~hands[1].is_doubled_down
    /\ ~hands[1].is_surrendered
    /\ Len(hands[1].cards) < 5 /\ ~is_bust(hands[1].cards)
    /\ Len(dealer_hand) > 2 /\ is_bust(dealer_hand)
    /\ round_history # <<>>
    /\ chips = round_history[Len(round_history)].starting_balance
                   + hands[1].bet

\* C4: a successful split of the hand at index i with bet b takes exactly b
\* chips, adds exactly one hand, puts the new hand at index i+1 with bet b,
\* leaves the source hand at index i with bet b, flags both hands is_split
\* and leaves current_hand_index unchanged.
C4_SplitEffect ==
    [][Split(TRUE)
       => LET i == current_hand_index + 1
              b == hands[i].bet
          IN /\ chips' = chips - b
             /\ Len(hands') = Len(hands) + 1
             /\ hands'[i + 1].bet = b
             /\ hands'[i + 1].cards[1] = hands[i].cards[2]
             /\ hands'[i].bet = b
             /\ hands'[i].cards[1] = hands[i].cards[1]
             /\ hands'[i].is_split /\ hands'[i + 1].is_split
             /\ current_hand_index' = current_hand_index]_vars

\* A pair has been split into two hands and the first of them is in play.
C4_Witness ==
    /\ state = PLAYER_TURN
    /\ Len(hands) = 2
    /\ current_hand_index = 0
    /\ hands[1].is_split /\ hands[2].is_split
    /\ hands[1].bet = hands[2].bet /\ hands[1].bet > 0
    /\ Len(hands[1].cards) = 2 /\ Len(hands[2].cards) = 2

DealerPlayOut ==
    /\ state = PLAYER_TURN
    /\ state' = GAME_OVER
    /\ Stand(TRUE) \/ Surrender(TRUE) \/ DoubleDown(TRUE)

\* C6: the dealer's play-out ends after at most as many draws as the shoe
\* holds cards; when it ends the dealer's value is at least 17 or the shoe
\* is empty, and, the dealer standing on soft 17, every card was drawn on a
\* value below 17.
C6_DealerPlayOut ==
    [][(DealerPlayOut /\ ~dealer_hits_soft_17)
       => /\ Len(dealer_hand') - Len(dealer_hand) <= DeckLen(deck)
          /\ SubSeq(dealer_hand', 1, Len(dealer_hand)) = dealer_hand
          /\ \/ calculate_hand_value(dealer_hand') >= 17
             \/ DeckLen(deck') = 0
          /\ \A k \in Len(dealer_hand)..(Len(dealer_hand') - 1) :
                 calculate_hand_value(SubSeq(dealer_hand', 1, k)) < 17]_vars

\* The dealer has drawn to 17 or more and stopped with cards left in the
\* shoe.
C6_Witness ==
    /\ state = GAME_OVER
    /\ ~hole_card_hidden
    /\ Len(dealer_hand) > 2
    /\ calculate_hand_value(dealer_hand) >= 17
    /\ calculate_hand_value(SubSeq(dealer_hand, 1, Len(dealer_hand) - 1)) < 17
    /\ DeckLen(deck) > 0

\* A step in which the player, holding one undoubled hand that is not a
\* blackjack, buys the offered insurance while the dealer holds a blackjack.
BuysInsuranceAgainstBlackjack ==
    /\ InsuranceDecision("buy", TRUE)
    /\ insurance_offer_active /\ ~even_money_offer_active
    /\ Len(hands) = 1
    /\ ~hands[1].is_doubled_down
    /\ ~is_blackjack(hands[1].cards)
    /\ is_blackjack(dealer_hand)

C8_EvenMoney ==
    [][(even_money_offer_active /\ InsuranceDecision("even_money", TRUE))
       => /\ chips' = chips + 2 * get_current_hand(Self).bet
          /\ result' = "even_money"
          /\ ~insurance_offer_active' /\ ~even_money_offer_active'
          /\ state' = GAME_OVER]_vars

\* Even money has been paid on a blackjack while the dealer's hole card
\* makes a blackjack too.
C8_Witness ==
    /\ state = GAME_OVER
    /\ result = "even_money"
    /\ Len(hands) = 1 /\ is_blackjack(hands[1].cards)
    /\ is_blackjack(dealer_hand)
    /\ chips = StartingChips + hands[1].bet

\* C9: a successful surrender in a round with a single hand credits
\* exactly floor(bet / 2) to chips over the whole call, settlement
\* included, marks the hand is_surrendered and ends the round in GAME_OVER
\* with result "loss", whatever the dealer's final total is.
C9_Surrender ==
    [][(Len(hands) = 1 /\ Surrender(TRUE))
       => /\ chips' = chips + (hands[1].bet \div 2)
          /\ hands'[1].is_surrendered
          /\ hands'[1].bet = hands[1].bet
          /\ state' = GAME_OVER
          /\ result' = "loss"]_vars

\* A single hand has been surrendered and the dealer has played out to a
\* total below the hand's value.
C9_Witness ==
    /\ state = GAME_OVER
    /\ Len(hands) = 1 /\ hands[1].is_surrendered
    /\ result = "loss"
    /\ ~is_bust(dealer_hand)
    /\ calculate_hand_value(dealer_hand)
           < calculate_hand_value(hands[1].cards)
    /\ chips = StartingChips - hands[1].bet + (hands[1].bet \div 2)

\* What settlement owes a hand that has not been paid before: nothing to a
\* surrendered, busted or lower hand, twice the bet to a winning hand and
\* the bet to an equal hand.
SettlementCredit(hand, dealer_cards) ==
    LET player_value == calculate_hand_value(hand.cards)
        dealer_value == calculate_hand_value(dealer_cards)
    IN IF hand.is_surrendered \/ is_bust(hand.cards) THEN 0
       ELSE IF is_bust(dealer_cards) \/ player_value > dealer_value
            THEN 2 * hand.bet
       ELSE IF player_value = dealer_value THEN hand.bet
       ELSE 0

\* C10: a hand that has won by reaching five cards without busting is
\* credited nothing more in the round: when the other hand of the split is
\* stood on afterwards, settlement credits chips for that other hand only.
C10_CharliePaidOnce ==
    [][(/\ state' = GAME_OVER
        /\ Len(hands) = 2
        /\ current_hand_index = 1
        /\ Len(hands[1].cards) = 5 /\ ~is_bust(hands[1].cards)
        /\ ~insurance_taken
        /\ Stand(TRUE))
       => chips' = chips + SettlementCredit(hands[2], dealer_hand')]_vars

\* The run_auto_cycle call has returned on a game opened with new_game.
AutoReturned == auto_pc = "returned" /\ hands # <<>>

\* C11: a run of auto-play started with hands = N in which no round found
\* the bankroll below its bet returns after exactly N completed rounds,
\* with auto_mode_active false, auto_hands_remaining 0 and the status
\* "Auto mode finished".
C11_AutoRunsAllRounds ==
    (AutoReturned /\ auto_status # AutoInsufficient)
    => /\ auto_rounds = auto_hands
       /\ ~auto_mode_active
       /\ auto_hands_remaining = 0
       /\ auto_status = AutoFinished

\* Arguments that pass the checks start_auto_mode makes before it looks at
\* the bankroll.
ValidAutoArgs(cfg) ==
    /\ cfg.default_bet > 0
    /\ cfg.hands > 0
    /\ cfg.insurance_mode \in {"always", "never"}
    /\ cfg.betting_strategy = "percentage" => cfg.bet_percentage \in 1..100

\* A round of run_auto_cycle whose bet the bankroll does not cover places
\* no bet and stops the driver.
AutoStopsOnShortBankroll ==
    (/\ AutoPlaceBet
     /\ is_auto_mode_active(Self)
     /\ state = BETTING
     /\ chips < auto_bet_amount(Self).bet_amount)
    => /\ chips' = chips
       /\ hands' = hands
       /\ round_counter' = round_counter
       /\ state' = state
       /\ ~auto_mode_active'
       /\ auto_status' = AutoInsufficient
       /\ auto_pc' = "returned"

\* C12, as stated: start_auto_mode with chips < default bet is rejected
\* with the insufficient-bankroll message and leaves auto mode inactive,
\* and a round of run_auto_cycle whose bet exceeds the chips places no bet
\* and stops the driver with the insufficient-bankroll status.
C12_AutoBankrollGuard_AsStated ==
    [][/\ auto_pc = "idle"
          => \A cfg \in AutoConfigs, message \in AutoStartMessages :
               (/\ StartAutoMode(cfg, message)
                /\ ValidAutoArgs(cfg)
                /\ chips < cfg.default_bet)
               => message = AutoInsufficientStart /\ ~auto_mode_active'
       /\ AutoStopsOnShortBankroll]_vars

\* C12, amended: the rejection of start_auto_mode on chips < default bet
\* is that of the fixed and progressive strategies; under the percentage
\* strategy the chips are compared with the percentage bet, not with the
\* default bet.
C12_AutoBankrollGuard ==
    [][/\ auto_pc = "idle"
          => \A cfg \in AutoConfigs, message \in AutoStartMessages :
               (StartAutoMode(cfg, message) /\ ValidAutoArgs(cfg))
               => /\ (/\ cfg.betting_strategy # "percentage"
                      /\ chips < cfg.default_bet)
                     => /\ message = AutoInsufficientStart
                        /\ ~auto_mode_active'
                  /\ (/\ cfg.betting_strategy = "percentage"
                      /\ chips < percentage_bet(chips, cfg.bet_percentage))
                     => /\ message = AutoInsufficientStart
                        /\ ~auto_mode_active'
                  /\ message = AutoStarted
                     => \/ cfg.betting_strategy = "percentage"
                        \/ chips >= cfg.default_bet
       /\ AutoStopsOnShortBankroll]_vars

\* A run of auto-play has stopped after a completed round because the
\* chips no longer covered the bet of the next round.
C12_Witness ==
    /\ AutoReturned
    /\ auto_status = AutoInsufficient
    /\ auto_rounds >= 1
    /\ auto_rounds < auto_hands
    /\ state = BETTING
    /\ hands[1].bet = 0

\* The totals of a hand over all assignments of 1 or 11 to each Ace.
RECURSIVE HandTotals(_)
HandTotals(cards) ==
    IF cards = <<>> THEN {0}
    ELSE LET values == IF Head(cards) = "A" THEN {1, 11}
                       ELSE {CardValue(Head(cards))}
         IN {v + t : v \in values, t \in HandTotals(Tail(cards))}

\* The totals over the assignments that count at least one Ace as 11.
RECURSIVE SoftTotals(_)
SoftTotals(cards) ==
    IF cards = <<>> THEN {}
    ELSE IF Head(cards) = "A"
    THEN {11 + t : t \in HandTotals(Tail(cards))}
             \cup {1 + t : t \in SoftTotals(Tail(cards))}
    ELSE {CardValue(Head(cards)) + t : t \in SoftTotals(Tail(cards))}

\* The highest total not above 21, or the lowest total when all are above.
BestTotal(cards) ==
    LET totals == HandTotals(cards)
        within == {t \in totals : t <= 21}
    IN IF within # {}
       THEN CHOOSE t \in within : \A u \in within : u <= t
       ELSE CHOOSE t \in totals : \A u \in totals : t <= u

\* C13: calculate_hand_value is the highest total not above 21 over the
\* assignments of 1 or 11 to each Ace, or the total with every Ace as 1
\* when none is; is_bust holds exactly when that total is above 21 and
\* is_blackjack exactly when the hand has two cards and that total is 21.
C13_HandValue ==
    /\ calculate_hand_value(dealer_hand) = BestTotal(dealer_hand)
    /\ is_bust(dealer_hand) <=> BestTotal(dealer_hand) > 21
    /\ is_blackjack(dealer_hand)
           <=> Len(dealer_hand) = 2 /\ BestTotal(dealer_hand) = 21

\* A hand with two Aces, one counted as 11 and one as 1, and a hand whose
\* Aces all count as 1.
C13_Witness ==
    \/ dealer_hand = <<"A", "A", "9">>
    \/ dealer_hand = <<"K", "A", "A", "9">>

\* A hand valued 17 with an Ace counted as 11.
SoftSeventeen(cards) == BestTotal(cards) = 17 /\ 17 \in SoftTotals(cards)

\* C14: is_soft_17 holds exactly for the hands valued 17 with an Ace
\* counted as 11, hands with several Aces included, and a dealer who hits
\* soft 17 draws on every such hand.
C14_SoftSeventeen ==
    /\ is_soft_17(dealer_hand) <=> SoftSeventeen(dealer_hand)
    /\ SoftSeventeen(dealer_hand) => should_hit(dealer_hand, TRUE)

\* The cards of rank r held by the player's hands from index i on.
RECURSIVE InHands(_, _, _)
InHands(hs, i, r) ==
    IF i > Len(hs) THEN 0
    ELSE Cardinality({k \in 1..Len(hs[i].cards) : hs[i].cards[k] = r})
             + InHands(hs, i + 1, r)

\* The cards of rank r in the shoe, the player's hands and the dealer's hand.
InPlay(d, hs, dh, r) ==
    d[r] + InHands(hs, 1, r) + Cardinality({k \in 1..Len(dh) : dh[k] = r})

\* C15: within a round, whatever is dealt or played, and also when a
\* forced dealer hand is configured, every card stays in the shoe or in
\* exactly one hand: for each rank the cards in the shoe, the player's hands
\* and the dealer's hand stay as many as at the start of the round.
C15_CardsConserved ==
    [][~NewGame
       => \A r \in ShoeRanks :
              InPlay(deck', hands', dealer_hand', r)
                  = InPlay(deck, hands, dealer_hand, r)]_vars

\* The place of a state tag in the order BETTING, DEALING, PLAYER_TURN,
\* DEALER_TURN, GAME_OVER.
StateOrder(tag) ==
    CASE tag = BETTING -> 0
      [] tag = DEALING -> 1
      [] tag = PLAYER_TURN -> 2
      [] tag = DEALER_TURN -> 3
      [] tag = GAME_OVER -> 4

\* C16: the state tag only moves forward along BETTING, DEALING,
\* PLAYER_TURN, DEALER_TURN, GAME_OVER, except that new_game takes
\* GAME_OVER back to BETTING; nothing takes a round in PLAYER_TURN back to
\* BETTING.
C16_StateMovesForward ==
    [][\/ StateOrder(state') >= StateOrder(state)
       \/ state = GAME_OVER /\ state' = BETTING /\ NewGame]_vars

\* The outcome of one hand at settlement against the dealer's final hand.
HandOutcome(hand, dealer_cards) ==
    LET player_value == calculate_hand_value(hand.cards)
        dealer_value == calculate_hand_value(dealer_cards)
    IN IF hand.is_surrendered \/ is_bust(hand.cards) THEN "loss"
       ELSE IF is_bust(dealer_cards) THEN "win"
       ELSE IF player_value > dealer_value
            THEN IF is_blackjack(hand.cards) /\ ~hand.is_split
                 THEN "blackjack" ELSE "win"
       ELSE IF player_value < dealer_value THEN "loss"
       ELSE "push"

\* The label by precedence: "blackjack" when a hand won with a blackjack,
\* otherwise the outcome of the first hand whose outcome is not a push,
\* and "push" when every hand pushed.
LabelByPrecedence(hs, dealer_cards) ==
    LET decided == {i \in 1..Len(hs) :
                        HandOutcome(hs[i], dealer_cards) # "push"}
        first == CHOOSE i \in decided : \A j \in decided : i <= j
    IN IF \E i \in 1..Len(hs) :
              HandOutcome(hs[i], dealer_cards) = "blackjack"
       THEN "blackjack"
       ELSE IF decided = {} THEN "push"
       ELSE HandOutcome(hs[first], dealer_cards)

\* C17: at settlement the result label follows the precedence over the
\* hands in order: the first hand that wins or loses sets the label, a
\* later win or loss does not change it, and the label is "push" only when
\* no hand won, lost or had a blackjack.
C17_ResultLabelPrecedence ==
    [][DealerPlayOut
       => result' = LabelByPrecedence(hands', dealer_hand')]_vars

\* A step that resolves an unsplit natural blackjack of the player without
\* even money: the deal, when the dealer's upcard is not an Ace, or the
\* decline of the even-money offer.
NaturalResolved ==
    \/ /\ DealInitialCards(TRUE)
       /\ Len(hands') = 1
       /\ is_blackjack(hands'[1].cards)
       /\ dealer_hand'[2] # "A"
    \/ /\ InsuranceDecision("decline", TRUE)
       /\ even_money_offer_active
       /\ Len(hands) = 1
       /\ is_blackjack(hands[1].cards)

\* A finished round whose only hand is a natural blackjack that was
\* resolved as a push or as a blackjack win.
NaturalSettled ==
    /\ state = GAME_OVER
    /\ Len(hands) = 1
    /\ is_blackjack(hands[1].cards)
    /\ result \in {"push", "blackjack"}

\* C18: when an unsplit natural blackjack of the player is resolved without
\* even money, the hole card is revealed, the state is GAME_OVER and the
\* player is credited the bet with result "push" if the dealer has a
\* blackjack too, and floor(2.5 x bet) with result "blackjack" otherwise;
\* nothing is credited for the hand afterwards.
C18_NaturalBlackjack ==
    [][/\ NaturalResolved
          => /\ ~hole_card_hidden'
             /\ state' = GAME_OVER
             /\ IF is_blackjack(dealer_hand')
                THEN /\ chips' = chips + hands[1].bet
                     /\ result' = "push"
                ELSE /\ chips' = chips + (5 * hands[1].bet) \div 2
                     /\ result' = "blackjack"
       /\ NaturalSettled => (chips' = chips \/ NewGame)]_vars

\* The even-money offer was declined on a bet of 5 and the blackjack was
\* paid 12, the dealer holding an Ace up and no blackjack.
C18_Witness ==
    /\ NaturalSettled
    /\ ~hole_card_hidden
    /\ dealer_hand[2] = "A"
    /\ ~is_blackjack(dealer_hand)
    /\ result = "blackjack"
    /\ hands[1].bet = 5
    /\ round_counter = 1
    /\ chips = StartingChips - 5 + 12

\* C19: after a successful deal an even-money offer is active exactly when
\* the player has a natural blackjack and the dealer's upcard is an Ace,
\* an insurance offer exactly when the player has no blackjack and the
\* upcard is an Ace, with insurance_amount = floor(bet / 2); the offers are
\* never active together, and while one is pending the state is
\* PLAYER_TURN and the hole card is hidden.
C19_OffersAfterDeal ==
    [][/\ DealInitialCards(TRUE)
          => LET natural == is_blackjack(hands'[1].cards)
                 ace_up == dealer_hand'[2] = "A"
             IN /\ even_money_offer_active' <=> (natural /\ ace_up)
                /\ insurance_offer_active' <=> (~natural /\ ace_up)
                /\ insurance_offer_active'
                       => insurance_amount' = hands'[1].bet \div 2
       /\ ~(insurance_offer_active' /\ even_money_offer_active')
       /\ (insurance_offer_active' \/ even_money_offer_active')
              => state' = PLAYER_TURN /\ hole_card_hidden']_vars

\* C20: once new_game has created a hand, place_bet(amount) succeeds
\* exactly when the state is BETTING, the amount is within the table
\* limits and the chips cover it; on success the hand's bet is the amount
\* and the chips go down by the amount; otherwise the call fails and
\* chips, bet and state are unchanged.
C20_PlaceBet ==
    [][hands # <<>>
       => \A amount \in BetAmounts :
            LET accepted == /\ state = BETTING
                            /\ min_bet <= amount /\ amount <= max_bet
                            /\ amount <= chips
            IN /\ PlaceBet(amount, TRUE)
                  => /\ accepted
                     /\ hands'[1].bet = amount
                     /\ chips' = chips - amount
                     /\ state' = state
               /\ PlaceBet(amount, FALSE)
                  => /\ ~accepted
                     /\ chips' = chips
                     /\ hands' = hands
                     /\ state' = state]_vars

\* A bet of 5 placed in a later round, after new_game.
C20_Witness ==
    /\ state = BETTING
    /\ round_history # <<>>
    /\ hands[1].bet = 5
    /\ hands[1].cards = <<>>
    /\ current_round_audit # Nothing
    /\ current_round_audit[1].starting_balance = chips + 5

\* C21: in every state, new_game rebuilds the shoe to its full size exactly
\* when fewer cards remain than half the shoe (rounded down) and otherwise
\* leaves the shoe as it is; either way it keeps the chips and leaves one
\* empty hand with bet 0, an empty dealer hand with the hole card hidden,
\* state BETTING, no result and the insurance, even-money and peek flags
\* cleared.
C21_NewGameResets ==
    LET g == new_game(Self, FALSE)
        shoe_size == Cardinality(ShoeRanks) * CardsPerRank
    IN /\ g.deck = IF DeckLen(deck) < shoe_size \div 2
                   THEN [r \in ShoeRanks |-> CardsPerRank]
                   ELSE deck
       /\ g.chips = chips
       /\ Len(g.hands) = 1
       /\ g.hands[1].cards = <<>> /\ g.hands[1].bet = 0
       /\ g.dealer_hand = <<>> /\ g.hole_card_hidden
       /\ g.state = BETTING /\ g.result = None
       /\ ~g.insurance_offer_active /\ ~g.insurance_taken
       /\ g.insurance_amount = 0
       /\ ~g.even_money_offer_active
       /\ ~g.dealer_peeked

\* new_game has rebuilt the shoe after a finished round that changed the
\* chips.
C21_Witness ==
    /\ state = BETTING
    /\ round_history # <<>>
    /\ hands[1].cards = <<>> /\ hands[1].bet = 0
    /\ chips # StartingChips
    /\ deck = FullDeck

\* The rounds whose audit has been finalised, counted from the audits
\* started one after the other.
RoundsCompleted ==
    IF current_round_audit = Nothing THEN round_counter
    ELSE round_counter - 1

RoundFinalizedOnce ==
    [][/\ (state # GAME_OVER /\ state' = GAME_OVER)
          => /\ current_round_audit # Nothing
             /\ current_round_audit' = Nothing
             /\ Len(round_history') = Len(round_history) + 1
             /\ round_history'[Len(round_history')].round_id
                    = current_round_audit[1].round_id
             /\ SubSeq(round_history', 1, Len(round_history))
                    = round_history
       /\ ~(state # GAME_OVER /\ state' = GAME_OVER)
          => round_history' = round_history]_vars

\* The decisions auto-play takes on the current hand.
AutoDecisions(g) ==
    <<get_auto_play_decision(g), should_double_down(g), should_split(g),
      should_surrender(g)>>

\* C23: the auto-play decisions (hit or stand by strategy, recommended
\* double, split and surrender) depend on the player's hand and the
\* dealer's upcard only: with another hole card in the dealer's hand, and
\* everything else the same, every decision is the same.
C23_DecisionsIgnoreHoleCard ==
    (/\ hands # <<>>
     /\ Len(hands[1].cards) = InitialCards
     /\ Len(dealer_hand) = InitialCards)
    => \A strategy \in {"basic", "conservative", "aggressive"},
          hole \in RANKS :
          LET g == [Self EXCEPT !.auto_strategy = strategy]
          IN AutoDecisions([g EXCEPT !.dealer_hand[1] = hole])
                 = AutoDecisions(g)

\* A deal that gives the dealer a ten-value upcard and the player's only
\* hand no blackjack.
TenUpDeal ==
    /\ DealInitialCards(TRUE)
    /\ Len(hands') = 1
    /\ ~is_blackjack(hands'[1].cards)
    /\ is_ten_value(dealer_hand'[2])

\* C24: on a deal with a ten-value upcard and no player blackjack the
\* dealer peeks: with a dealer blackjack the deal returns in GAME_OVER with
\* the hole card revealed, result "loss" and no chips credited, otherwise
\* in PLAYER_TURN with the hole card hidden; once the dealer has peeked,
\* the peek is not performed again before the next round.
C24_PeekOnTenUp ==
    [][/\ TenUpDeal
          => /\ dealer_peeked'
             /\ IF is_blackjack(dealer_hand')
                THEN /\ state' = GAME_OVER
                     /\ ~hole_card_hidden'
                     /\ result' = "loss"
                     /\ chips' = chips
                ELSE /\ state' = PLAYER_TURN
                     /\ hole_card_hidden'
       /\ dealer_peeked
          => /\ dealer_peeked' \/ NewGame
             /\ dealer_peek_and_check_blackjack(Self)
                    = [g |-> Self, game_over |-> FALSE]]_vars

\* The deal gave the dealer an Ace under a King and the player 7, 7: the
\* dealer has peeked and the round is lost on the bet of 5.
C24_Witness ==
    /\ state = GAME_OVER
    /\ dealer_peeked
    /\ ~hole_card_hidden
    /\ dealer_hand = <<"A", "K">>
    /\ Len(hands) = 1
    /\ hands[1].cards = <<"7", "7">>
    /\ result = "loss"
    /\ round_counter = 1
    /\ chips = StartingChips - 5

\* An insurance offer (not even money) waits for the player's answer.
InsuranceOfferOpen ==
    /\ state = PLAYER_TURN
    /\ insurance_offer_active
    /\ ~even_money_offer_active
    /\ has_current_hand(Self)

\* Bets returned to the first n hands that hold a two-card 21 of their
\* own against the dealer's blackjack.
RECURSIVE PeekPushReturn(_)
PeekPushReturn(n) ==
    IF n = 0 THEN 0
    ELSE PeekPushReturn(n - 1)
         + (IF is_blackjack(hands[n].cards) THEN hands[n].bet ELSE 0)

\* Chips the peek credits when it finds a dealer blackjack: the insurance
\* stake three times over when insurance was bought, and the bets that
\* push.
PeekCredit(bought) ==
    IF ~is_blackjack(dealer_hand) THEN 0
    ELSE (IF bought THEN 3 * insurance_amount ELSE 0)
         + PeekPushReturn(Len(hands))

DoubledHand(i) ==
    /\ hands[i].is_doubled_down
    /\ Len(hands[i].cards) = 3

\* C26: a successful double_down on a hand with bet b starts from a
\* two-card hand that is neither doubled nor from split Aces, with
\* chips >= b; it leaves the hand with bet 2b, one more card (three) and
\* is_doubled_down set, and takes exactly b chips; the hand is finished:
\* either current_hand_index has advanced to the next hand (chips down by
\* exactly b) or the dealer has played and the round is settled in
\* GAME_OVER (chips down by b before the settlement credits).  A doubled
\* hand is never the current hand of a later player turn and no later
\* step of the round changes it.
C26_DoubleDown ==
    [][/\ DoubleDown(TRUE)
          => LET i == current_hand_index + 1
                 b == hands[i].bet
             IN /\ state = PLAYER_TURN
                /\ Len(hands[i].cards) = 2
                /\ ~hands[i].is_doubled_down
                /\ ~hands[i].is_from_split_aces
                /\ chips >= b
                /\ Len(hands') = Len(hands)
                /\ hands'[i].bet = 2 * b
                /\ Len(hands'[i].cards) = 3
                /\ SubSeq(hands'[i].cards, 1, 2) = hands[i].cards
                /\ hands'[i].is_doubled_down
                /\ \A j \in 1..Len(hands) : j # i => hands'[j] = hands[j]
                /\ \/ /\ state' = PLAYER_TURN
                      /\ i < Len(hands)
                      /\ current_hand_index' = current_hand_index + 1
                      /\ chips' = chips - b
                      /\ dealer_hand' = dealer_hand
                   \/ /\ state' = GAME_OVER
                      /\ i = Len(hands)
                      /\ ~hole_card_hidden'
                      /\ result' # None
                      /\ chips' >= chips - b
       /\ state = PLAYER_TURN
          => \A i \in 1..Len(hands) :
                DoubledHand(i)
                => /\ i < current_hand_index + 1
                   /\ state' # BETTING
                      => Len(hands') >= i /\ hands'[i] = hands[i]]_vars

\* A bet of 5 split and the first hand doubled: it carries 10 and three
\* cards, the 15 chips are spent and the second hand is to play.
C26_Witness ==
    /\ state = PLAYER_TURN
    /\ Len(hands) = 2
    /\ current_hand_index = 1
    /\ DoubledHand(1)
    /\ hands[1].bet = 10
    /\ hands[2].bet = 5
    /\ Len(hands[2].cards) = 2
    /\ chips = SplitTableChips - 15

\* A successful hit whose card busts the current hand.
HitBust ==
    /\ Hit(TRUE)
    /\ is_bust(hands'[current_hand_index + 1].cards)

\* C27: a hit that busts the last hand ends the round in the same call:
\* GAME_OVER, result "loss", hole card revealed, the dealer's two cards as
\* dealt and the chips as before the call; a hit that busts a hand with
\* another hand behind it advances current_hand_index by one and stays
\* in PLAYER_TURN.
C27_HitBust ==
    [][HitBust
       => IF current_hand_index + 1 = Len(hands)
          THEN /\ state' = GAME_OVER
               /\ result' = "loss"
               /\ ~hole_card_hidden'
               /\ dealer_hand' = dealer_hand
               /\ Len(dealer_hand') = InitialCards
               /\ chips' = chips
          ELSE /\ current_hand_index' = current_hand_index + 1
               /\ state' = PLAYER_TURN
               /\ hole_card_hidden' = hole_card_hidden
               /\ dealer_hand' = dealer_hand
               /\ chips' = chips]_vars

\* The only hand went K, 7, K against a dealer holding 7, 7: the round is
\* lost and the dealer, at 14, has drawn nothing.
C27_Witness ==
    /\ state = GAME_OVER
    /\ result = "loss"
    /\ ~hole_card_hidden
    /\ Len(hands) = 1
    /\ hands[1].cards = <<"K", "7", "K">>
    /\ dealer_hand = <<"7", "7">>
    /\ chips = StartingChips - 5

\* What one settlement owes the first n hands against the dealer's cards.
RECURSIVE SettlementSum(_, _)
SettlementSum(n, dealer_cards) ==
    IF n = 0 THEN 0
    ELSE SettlementSum(n - 1, dealer_cards)
         + SettlementCredit(hands[n], dealer_cards)

\* The fields of the game other than current_hand_index.
AllButHandIndex ==
    <<state, result, chips, hands, total_wins, total_losses,
      total_blackjacks, dealerVars, deck, dealer_hits_soft_17, offerVars,
      forceVars, auditVars, autoVars, cards_dealt>>

SplitNatural(hand) == hand.is_split /\ is_blackjack(hand.cards)

\* C29: a two-card 21 on a split hand is never paid as a blackjack: in a
\* step that leaves such a hand on the table total_blackjacks does not
\* grow and the result label is not "blackjack", and the settlement that
\* follows the last stand credits a winning hand of that kind exactly
\* twice its bet, like every other winning hand.
C29_SplitNaturalPaidEven ==
    [][(\E i \in 1..Len(hands') : SplitNatural(hands'[i]))
       => /\ total_blackjacks' = total_blackjacks
          /\ result' # "blackjack"
          /\ (DealerPlayOut /\ Stand(TRUE))
             => chips' = chips + SettlementSum(Len(hands), dealer_hand')]_vars

\* Two Kings split, the first hand drew an Ace; the dealer stood below 21
\* on two cards: the hand was credited twice its bet, the label is "win"
\* and no blackjack was counted.
C29_Witness ==
    /\ state = GAME_OVER
    /\ Len(hands) = 2
    /\ SplitNatural(hands[1])
    /\ hands[1].cards = <<"K", "A">>
    /\ Len(dealer_hand) = 2
    /\ calculate_hand_value(dealer_hand) < 21
    /\ result = "win"
    /\ total_blackjacks = 0
    /\ round_counter = 1
    /\ chips = StartingChips - 10 + 2 * hands[1].bet
                   + SettlementCredit(hands[2], dealer_hand)

\* run_auto_cycle has placed the bet of a round under the progressive
\* strategy.
ProgressiveBetPlaced ==
    /\ auto_pc = "loop"
    /\ auto_pc' = "deal"
    /\ auto_betting_strategy = "progressive"
    /\ AutoPlaceBet

\* The bet the progressive strategy owes the round, from the record of
\* the round before: twice its bet up to max_bet after a "loss", the
\* default bet otherwise and in the first round.
ProgressiveBetDue ==
    IF auto_rounds > 0 /\ round_history # <<>>
       /\ round_history[Len(round_history)].result = "loss"
    THEN LET twice == 2 * round_history[Len(round_history)].bet_amount
         IN IF twice < max_bet THEN twice ELSE max_bet
    ELSE auto_default_bet

\* C30: under the progressive strategy the bet of each auto-play round is
\* min(2 x the bet of the round before, max_bet) when that round's result
\* was "loss", and the default bet after any other result and in the first
\* round; it never exceeds max_bet.
C30_ProgressiveBet ==
    [][ProgressiveBetPlaced
       => /\ hands'[1].bet = ProgressiveBetDue
          /\ hands'[1].bet <= max_bet]_vars

\* C31: in auto-play the action loop of a round is left only when every
\* hand has been finished by an action of the round, so the round is in
\* GAME_OVER when run_auto_cycle comes to the test before the forced
\* settlement, and the dealer whose hand is compared there has played out.
C31_AutoLoopFinishesHands ==
    auto_pc = "after" => state = GAME_OVER

\* The credits one settlement can give a hand: the refund of half the bet
\* to a surrendered hand; otherwise nothing (loss), the bet (push), twice
\* the bet (win), or int(2.5 x bet) for a natural on a hand not split.
SingleCredits(hand) ==
    IF hand.is_surrendered THEN {hand.bet \div 2}
    ELSE {0, hand.bet, 2 * hand.bet}
         \cup (IF is_blackjack(hand.cards) /\ ~hand.is_split
               THEN {BlackjackPayout(hand.bet)} ELSE {})

\* The sums of one credit for each of the first n hands.
RECURSIVE CreditSums(_)
CreditSums(n) ==
    IF n = 0 THEN {0}
    ELSE {sum + credit : sum \in CreditSums(n - 1),
                         credit \in SingleCredits(hands[n])}

\* The stakes on the first n hands (a doubled hand carries both).
RECURSIVE StakesCharged(_)
StakesCharged(n) ==
    IF n = 0 THEN 0 ELSE StakesCharged(n - 1) + hands[n].bet

\* C32: when a round is over every hand has been settled exactly once:
\* in the first round of a game, played without insurance or even money,
\* the chips are the starting chips less the stakes on the hands plus one
\* credit for each hand (win, push, loss or surrender refund).
C32_HandsSettledOnce ==
    (/\ state = GAME_OVER
     /\ round_counter = 1
     /\ hands # <<>>
     /\ insurance_outcome = Nothing
     /\ ~insurance_taken
     /\ result # "even_money")
    => chips - (StartingChips - StakesCharged(Len(hands)))
           \in CreditSums(Len(hands))

\* C33: before the deal the chips taken from the account equal the bet on
\* the hand: a successful place_bet leaves the sum of the chips and the
\* bet on the hand as it was, so a repeated place_bet charges no more than
\* the bet that is finally in play.
C33_BetMatchesCharge ==
    [][\A amount \in BetAmounts :
          PlaceBet(amount, TRUE)
          => chips' + hands'[1].bet = chips + hands[1].bet]_vars

\* C34: the player's chips are never negative.
C34_ChipsNeverNegative == chips >= 0

\* The bet and the split have taken the last chips: two hands are in play
\* and the account is at 0.
C34_Witness ==
    /\ state = PLAYER_TURN
    /\ Len(hands) = 2
    /\ hands[1].bet + hands[2].bet = StartingChips
    /\ chips = 0

\* The current hand comes from a split and is again a pair of equal rank,
\* not Aces, with the chips for one more bet and fewer than 4 hands on the
\* table.
SplitPairAgain ==
    /\ state = PLAYER_TURN
    /\ has_current_hand(Self)
    /\ get_current_hand(Self).is_split
    /\ ~get_current_hand(Self).is_from_split_aces
    /\ can_split(get_current_hand(Self).cards)
    /\ get_current_hand(Self).cards[1] # "A"
    /\ Len(hands) < 4
    /\ chips >= get_current_hand(Self).bet

\* C35: the number of hands never exceeds 4, and a pair of equal rank
\* (not Aces) on a hand that comes from a split is accepted for another
\* split while fewer than 4 hands exist.
C35_SplitCap ==
    /\ Len(hands) <= 4
    /\ SplitPairAgain
       => /\ hand_can_split(get_current_hand(Self))
          /\ split_hand(Self, current_hand_index).ok

\* C36: during the player's turn the dealer's hole card is hidden, and a
\* revealed hole card is hidden again only by new_game(), which clears the
\* dealer's hand.
C36_HoleCardOneWay ==
    [][/\ state' = PLAYER_TURN => hole_card_hidden'
       /\ (~hole_card_hidden /\ hole_card_hidden')
          => (state' = BETTING /\ dealer_hand' = <<>>)]_vars

\* The dealer has peeked without a blackjack, the player's turn is over
\* and the dealer has drawn with the hole card revealed.
C36_Witness ==
    /\ state = GAME_OVER
    /\ dealer_peeked
    /\ ~hole_card_hidden
    /\ Len(dealer_hand) > 2

\* C37: whenever the round is over (state GAME_OVER) the dealer's hole card
\* has been revealed.
C37_GameOverHoleRevealed ==
    state = GAME_OVER => ~hole_card_hidden

\* ------------------------------------------------------------------------
\* The dealer in the state snapshot
\* ------------------------------------------------------------------------
\* Card.to_dict(); suits are not modelled.
card_to_dict(rank) == [rank |-> rank, value |-> CardValue(rank)]

\* Dealer.get_visible_value()
get_visible_value(hand, hidden) ==
    IF hand = <<>> THEN None
    ELSE IF hidden /\ Len(hand) > 0
         THEN IF Tail(hand) # <<>> THEN calculate_hand_value(Tail(hand))
              ELSE None
         ELSE calculate_hand_value(hand)

\* Dealer.get_visible_cards()
get_visible_cards(hand, hidden) ==
    IF hidden /\ Len(hand) > 1 THEN Tail(hand) ELSE hand

\* Dealer.to_dict()
dealer_to_dict(hand, hidden) ==
    [hand |-> [i \in 1..Len(get_visible_cards(hand, hidden)) |->
                   card_to_dict(get_visible_cards(hand, hidden)[i])],
     full_hand |-> [i \in 1..Len(hand) |-> card_to_dict(hand[i])],
     value |-> get_visible_value(hand, hidden),
     full_value |-> IF ~hidden THEN calculate_hand_value(hand) ELSE None,
     is_blackjack |-> IF ~hidden THEN is_blackjack(hand) ELSE FALSE,
     is_bust |-> IF ~hidden THEN is_bust(hand) ELSE FALSE,
     hole_card_hidden |-> hidden]

\* C38: while the hole card is hidden the dealer's part of the snapshot is
\* the same whatever the hole card is, and the visible value is the value
\* of the cards after the first (none when only the hole card is there).
C38_SnapshotHidesHoleCard ==
    (hole_card_hidden /\ dealer_hand # <<>>)
    => /\ \A rank \in RANKS :
             dealer_to_dict(<<rank>> \o Tail(dealer_hand), TRUE)
                 = dealer_to_dict(dealer_hand, TRUE)
       /\ get_visible_value(dealer_hand, TRUE)
              = IF Len(dealer_hand) = 1 THEN None
                ELSE calculate_hand_value(Tail(dealer_hand))

\* C39: current_hand_index never exceeds the number of hands, it is the
\* index of a hand during the player's turn, and it decreases only when
\* new_game() starts the next round.
C39_HandIndexWalksForward ==
    [][/\ current_hand_index' >= 0
       /\ current_hand_index' <= Len(hands')
       /\ state' = PLAYER_TURN => current_hand_index' < Len(hands')
       /\ current_hand_index' < current_hand_index
          => (state' = BETTING /\ dealer_hand' = <<>>)]_vars

\* Both hands of a split have been played and the index stands behind the
\* last one.
C39_Witness ==
    /\ state = GAME_OVER
    /\ Len(hands) = 2
    /\ current_hand_index = 2

\* One of the operations of a round other than new_game() returns
\* success=true.
PlayOperationSucceeds ==
    \/ \E amount \in BetAmounts : PlaceBet(amount, TRUE)
    \/ DealInitialCards(TRUE)
    \/ Hit(TRUE)
    \/ Stand(TRUE)
    \/ Surrender(TRUE)
    \/ DoubleDown(TRUE)
    \/ Split(TRUE)
    \/ \E decision \in Decisions : InsuranceDecision(decision, TRUE)

\* C40: after every operation the state is BETTING, PLAYER_TURN or
\* GAME_OVER; in GAME_OVER no operation other than new_game() succeeds, and
\* only new_game() changes anything.
C40_GameOverAbsorbing ==
    /\ [](state \in {BETTING, PLAYER_TURN, GAME_OVER})
    /\ [](state = GAME_OVER => ~ENABLED PlayOperationSucceeds)
    /\ [][state = GAME_OVER => NewGame]_vars

\* The second round of the game is over: the first one was left through
\* new_game() only.
C40_Witness ==
    /\ state = GAME_OVER
    /\ round_counter = 2
    /\ result # None

====
